---- MODULE Spec2Model ----
(***************************************************************************)
(* emberdeck: the dual-source (card file + SQLite index) consistency       *)
(* engine.  The module models                                              *)
(*   - the per-(context, key) promise-chain lock  (src/ops/safe.ts),       *)
(*   - safeWriteOperation                          (src/ops/safe.ts),      *)
(*   - the card operations create / update / updateStatus / delete /       *)
(*     rename / syncCardFromFile over a file system and the store.         *)
(* One "caller" is one invocation of a public async function.  A step of   *)
(* a caller is the code it runs between two suspension points (await).     *)
(***************************************************************************)
EXTENDS Integers, Sequences, FiniteSets, TLC

(* ------------------------------ bounds --------------------------------- *)

\* number of concurrent invocations in the lock-level specification
NumCallers == 3

Callers == 1..NumCallers

\* card keys, listed in the order JavaScript's default sort() gives them
KeyOrder == <<"a", "b", "d/c">>

Keys == {KeyOrder[i] : i \in 1..Len(KeyOrder)}

KeyRank(k) == CHOOSE i \in 1..Len(KeyOrder) : KeyOrder[i] = k

Ctxs == {"ctx1", "ctx2"}

(* ------------------------------ state ---------------------------------- *)

VARIABLES
  cardLocks,   \* safe.ts:30  ctx -> key -> the tail promise of the key's chain
  resolved,    \* the `current` promises whose release() has been called
  prev,        \* caller -> <<prev of outer withCardLock, prev of inner one>>
  pc,          \* caller -> where the invocation is suspended
  call,        \* caller -> the invocation (operation, context, lock keys)
  result,      \* caller -> how the function run under the lock ended
  enqSeq,      \* history: ctx -> key -> withCardLock calls, in call order
  sw,          \* one safeWriteOperation call with stub callbacks
  files,       \* the cards directory: key of the path -> card file or NoFile
  db,          \* the store: card rows, relation rows, mappings, code links
  local,       \* caller -> the local variables that live across an await
  attempt,     \* caller -> withRetry's attempt counter
  faults,      \* number of I/O and store faults injected so far
  trace        \* history: caller -> its store commits and file mutations

lockVars == <<cardLocks, resolved, prev, pc, call, result, enqSeq>>

storeVars == <<files, db, local, attempt, faults, trace>>

vars ==
  <<cardLocks, resolved, prev, pc, call, result, enqSeq, sw,
    files, db, local, attempt, faults, trace>>

(* ------------------------ cards, files, the store ---------------------- *)

\* ctx.allowedRelationTypes
AllowedRelationTypes == {"depends-on", "related"}

\* an Error object; `kind` is its class (or, for store and I/O errors, the
\* text its message carries)
Err(kind) == [kind |-> kind]

BusyError == Err("database is locked")

UniqueError == Err("UNIQUE constraint failed")

\* new RelationTypeError(type, allowed)
RelationTypeError(type) == [kind |-> "RelationTypeError", type |-> type]

\* a thrown value that is not an Error object (throw 'database is locked')
ThrownString == [kind |-> "not an Error", text |-> "database is locked"]

\* err.message, as the list of its pieces.  RelationTypeError builds it from
\* the offending type and the allow-list; CompensationError has a fixed
\* text; every other error's message is the text its kind stands for
Message(err) ==
  IF err.kind = "RelationTypeError"
    THEN <<"Invalid relation type ", err.type, ". Allowed: ",
           "depends-on, related">>
    ELSE IF err.kind = "CompensationError"
           THEN <<"Compensation failed after operation error">>
           ELSE <<err.kind>>

\* message.includes(text), for a text that lies within one piece
Includes(message, text) == \E i \in 1..Len(message) : message[i] = text

\* isSqliteBusy(err)
IsSqliteBusy(err) ==
  /\ err.kind # "not an Error"
  /\ Includes(Message(err), "database is locked")

\* a path with no file behind it;  findByKey() === null
NoFile == [key |-> "ENOENT"]

NoRow == [key |-> "null"]

\* buildCardPath(cardsDir, slug)
BuildCardPath(slug) == <<"cardsDir", slug, ".card.md">>

\* an optional value: absent (undefined), or given
Undefined == [given |-> FALSE]

Given(v) == [given |-> TRUE, val |-> v]

\* constraints are opaque JSON; what matters is whether the value is truthy
NoConstraints == [json |-> "undefined", truthy |-> FALSE]

\* constraintsJson: constraints ? JSON.stringify(constraints) : null
ConstraintsJsonIfTruthy(constraints) ==
  IF constraints.truthy THEN constraints.json ELSE "null"

\* constraintsJson: constraints !== undefined ? JSON.stringify(...) : null
ConstraintsJsonIfDefined(constraints) ==
  IF constraints # NoConstraints THEN constraints.json ELSE "null"

EmptyDb ==
  [card |-> [k \in Keys |-> NoRow], rel |-> <<>>, kw |-> {}, tag |-> {},
   link |-> {}]

HasRow(d, key) == d.card[key] # NoRow

\* the result of a run of statements: the store they produced, or the error
Ok(d) == [ok |-> TRUE, db |-> d]

Failed(e) == [ok |-> FALSE, err |-> e]

\* run the next statement unless an earlier one threw
Then(res, Stmt(_)) == IF res.ok THEN Stmt(res.db) ELSE res

\* cardRepo.upsert(row): INSERT ... ON CONFLICT (key) DO UPDATE.  The key is
\* the only unique column of the card table; file_path carries no index
Upsert(d, row) == [d EXCEPT !.card[row.key] = row]

DeleteByKeyNoCascade(d, key) == [d EXCEPT !.card[key] = NoRow]

\* cardRepo.deleteByKey(key); ON DELETE CASCADE empties the other tables
DeleteByKey(d, key) ==
  [card |-> [d.card EXCEPT ![key] = NoRow],
   rel |-> SelectSeq(d.rel, LAMBDA r : r.src # key /\ r.dst # key),
   kw |-> {m \in d.kw : m[1] # key},
   tag |-> {m \in d.tag : m[1] # key},
   link |-> {l \in d.link : l.cardKey # key}]

RelationRow(type, src, dst, isReverse) ==
  [type |-> type, src |-> src, dst |-> dst, isReverse |-> isReverse]

InsertRelationRowNoIndex(d, r) ==
  IF ~HasRow(d, r.src) \/ ~HasRow(d, r.dst)
    THEN [st |-> "FOREIGN KEY", db |-> d]
    ELSE [st |-> "ok", db |-> [d EXCEPT !.rel = Append(@, r)]]

\* INSERT INTO card_relation: uq_card_relation, then the foreign keys
InsertRelationRow(d, r) ==
  IF \E i \in 1..Len(d.rel) :
       /\ d.rel[i].type = r.type
       /\ d.rel[i].src = r.src
       /\ d.rel[i].dst = r.dst
    THEN [st |-> "UNIQUE", db |-> d]
    ELSE IF ~HasRow(d, r.src) \/ ~HasRow(d, r.dst)
           THEN [st |-> "FOREIGN KEY", db |-> d]
           ELSE [st |-> "ok", db |-> [d EXCEPT !.rel = Append(@, r)]]

RECURSIVE InsertRelations(_, _, _)

InsertRelationsUntilForeignKey(d, cardKey, relations) ==
  IF relations = <<>>
    THEN Ok(d)
    ELSE LET rel == Head(relations)
             fwd == InsertRelationRow(d,
                      RelationRow(rel.type, cardKey, rel.target, FALSE))
             mir == InsertRelationRow(fwd.db,
                      RelationRow(rel.type, rel.target, cardKey, TRUE))
         IN IF fwd.st = "FOREIGN KEY"
              THEN Ok(d)
              ELSE IF fwd.st = "UNIQUE" \/ mir.st = "UNIQUE"
                     THEN Failed(UniqueError)
                     ELSE InsertRelations(mir.db, cardKey, Tail(relations))

\* the loop of relationRepo.replaceForCard: forward row, then its mirror;
\* a FOREIGN KEY failure skips the relation, any other error is thrown
InsertRelations(d, cardKey, relations) ==
  IF relations = <<>>
    THEN Ok(d)
    ELSE LET rel == Head(relations)
             fwd == InsertRelationRow(d,
                      RelationRow(rel.type, cardKey, rel.target, FALSE))
             mir == InsertRelationRow(fwd.db,
                      RelationRow(rel.type, rel.target, cardKey, TRUE))
         IN IF fwd.st = "FOREIGN KEY"
              THEN InsertRelations(d, cardKey, Tail(relations))
              ELSE IF fwd.st = "UNIQUE" \/ mir.st = "UNIQUE"
                     THEN Failed(UniqueError)
                     ELSE InsertRelations(mir.db, cardKey, Tail(relations))

OwnedByTouching(r, cardKey) == r.src = cardKey \/ r.dst = cardKey

OwnedByMirrorOnly(r, cardKey) ==
  r.dst = cardKey /\ r.isReverse

\* the rows the two DELETE statements of replaceForCard remove: the
\* forward rows cardKey declared and the mirror rows of those
OwnedBy(r, cardKey) ==
  \/ r.src = cardKey /\ ~r.isReverse
  \/ r.dst = cardKey /\ r.isReverse

ReplaceRelationsAppending(d, cardKey, relations) ==
  InsertRelations(d, cardKey, relations)

\* relationRepo.replaceForCard(cardKey, relations)
ReplaceRelations(d, cardKey, relations) ==
  InsertRelations(
    [d EXCEPT !.rel = SelectSeq(@, LAMBDA r : ~OwnedBy(r, cardKey))],
    cardKey, relations)

\* relationRepo.findByCardKey(cardKey).filter(r => !r.isReverse)
\*   .map(r => ({ type: r.type, target: r.dstCardKey }))
ForwardRelations(d, cardKey) ==
  LET own == SelectSeq(d.rel, LAMBDA r : r.src = cardKey /\ ~r.isReverse)
  IN [i \in 1..Len(own) |-> [type |-> own[i].type, target |-> own[i].dst]]

\* classRepo.replaceKeywords(key, names), classRepo.findKeywordsByCard(key)
ReplaceKeywords(d, key, names) ==
  [d EXCEPT !.kw = {m \in @ : m[1] # key} \cup {<<key, n>> : n \in names}]

FindKeywordsByCard(d, key) == {m[2] : m \in {x \in d.kw : x[1] = key}}

\* classRepo.replaceTags(key, names), classRepo.findTagsByCard(key)
ReplaceTags(d, key, names) ==
  [d EXCEPT !.tag = {m \in @ : m[1] # key} \cup {<<key, n>> : n \in names}]

FindTagsByCard(d, key) == {m[2] : m \in {x \in d.tag : x[1] = key}}

RECURSIVE InsertCodeLinks(_, _, _)

\* the loop of codeLinkRepo.replaceForCard
InsertCodeLinks(d, cardKey, links) ==
  IF links = <<>>
    THEN Ok(d)
    ELSE LET row == [cardKey |-> cardKey, link |-> Head(links)]
         IN IF row \in d.link
              THEN Failed(UniqueError)
              ELSE IF ~HasRow(d, cardKey)
                     THEN InsertCodeLinks(d, cardKey, Tail(links))
                     ELSE InsertCodeLinks([d EXCEPT !.link = @ \cup {row}],
                                          cardKey, Tail(links))

ReplaceCodeLinksKeeping(d, cardKey, links) ==
  InsertCodeLinks(d, cardKey, links)

\* codeLinkRepo.replaceForCard(cardKey, links)
ReplaceCodeLinks(d, cardKey, links) ==
  InsertCodeLinks([d EXCEPT !.link = {l \in @ : l.cardKey # cardKey}],
                  cardKey, links)

\* codeLinkRepo.findByCardKey(cardKey), as a set of links
FindCodeLinksByCard(d, cardKey) ==
  {l.link : l \in {x \in d.link : x.cardKey = cardKey}}

(* --------------------- what the operations compute --------------------- *)

\* createCard: the card built from the input (absent lists are empty here)
CreateCardFile(fullKey, input) ==
  [key |-> fullKey, summary |-> input.summary, status |-> "draft",
   constraints |-> input.constraints, keywords |-> input.keywords,
   tags |-> input.tags, relations |-> input.relations,
   codeLinks |-> input.codeLinks, body |-> input.body]

\* createCard's dbAction; a statement that throws rolls the transaction back
CreateTx(d, fullKey, input) ==
  LET row == [key |-> fullKey, summary |-> input.summary, status |-> "draft",
              constraintsJson |-> ConstraintsJsonIfDefined(input.constraints),
              body |-> input.body, filePath |-> BuildCardPath(fullKey)]
      s1 == Ok(Upsert(d, row))
      s2 == IF Len(input.relations) > 0
              THEN Then(s1, LAMBDA x :
                              ReplaceRelations(x, fullKey, input.relations))
              ELSE s1
      s3 == IF input.keywords # {}
              THEN Then(s2, LAMBDA x :
                              Ok(ReplaceKeywords(x, fullKey, input.keywords)))
              ELSE s2
      s4 == IF input.tags # {}
              THEN Then(s3, LAMBDA x : Ok(ReplaceTags(x, fullKey, input.tags)))
              ELSE s3
  IN IF Len(input.codeLinks) > 0
       THEN Then(s4, LAMBDA x : ReplaceCodeLinks(x, fullKey, input.codeLinks))
       ELSE s4

\* updateCard: fields that are undefined keep the prior value; null or an
\* empty list deletes the optional field (both are the empty value here)
NextCard(current, fields) ==
  [key |-> current.key,
   summary |-> IF fields.summary.given THEN fields.summary.val
               ELSE current.summary,
   status |-> current.status,
   constraints |-> IF fields.constraints.given THEN fields.constraints.val
                   ELSE current.constraints,
   keywords |-> IF fields.keywords.given THEN fields.keywords.val
                ELSE current.keywords,
   tags |-> IF fields.tags.given THEN fields.tags.val ELSE current.tags,
   relations |-> IF fields.relations.given THEN fields.relations.val
                 ELSE current.relations,
   codeLinks |-> IF fields.codeLinks.given THEN fields.codeLinks.val
                 ELSE current.codeLinks,
   body |-> IF fields.body.given THEN fields.body.val ELSE current.body]

\* updateCard's dbAction
UpdateTx(d, key, next, fields) ==
  LET row == [key |-> key, summary |-> next.summary, status |-> next.status,
              constraintsJson |-> ConstraintsJsonIfTruthy(next.constraints),
              body |-> next.body, filePath |-> BuildCardPath(key)]
      s1 == Ok(Upsert(d, row))
      s2 == IF fields.relations.given
              THEN Then(s1, LAMBDA x :
                              ReplaceRelations(x, key, next.relations))
              ELSE s1
      s3 == IF fields.keywords.given
              THEN Then(s2, LAMBDA x :
                              Ok(ReplaceKeywords(x, key, next.keywords)))
              ELSE s2
      s4 == IF fields.tags.given
              THEN Then(s3, LAMBDA x : Ok(ReplaceTags(x, key, next.tags)))
              ELSE s3
  IN IF fields.codeLinks.given
       THEN Then(s4, LAMBDA x : ReplaceCodeLinks(x, key, next.codeLinks))
       ELSE s4

\* updateCardStatus's dbAction: the existing row with the new status, or a
\* row built from the file when there is none
UpdateStatusDb(d, key, current, status) ==
  LET existing == d.card[key]
      row == IF existing # NoRow
               THEN [existing EXCEPT !.status = status]
               ELSE [key |-> key, summary |-> current.summary,
                     status |-> status,
                     constraintsJson |->
                       ConstraintsJsonIfTruthy(current.constraints),
                     body |-> current.body, filePath |-> BuildCardPath(key)]
  IN Upsert(d, row)

SyncTxRowOnly(d, slug, cardFile) ==
  Ok(Upsert(d, [key |-> cardFile.key, summary |-> cardFile.summary,
                status |-> cardFile.status,
                constraintsJson |->
                  ConstraintsJsonIfTruthy(cardFile.constraints),
                body |-> cardFile.body, filePath |-> BuildCardPath(slug)]))

\* the transaction of syncCardFromFile(ctx, filePath); slug names the path
SyncTx(d, slug, cardFile) ==
  LET key == cardFile.key
      row == [key |-> key, summary |-> cardFile.summary,
              status |-> cardFile.status,
              constraintsJson |->
                ConstraintsJsonIfTruthy(cardFile.constraints),
              body |-> cardFile.body, filePath |-> BuildCardPath(slug)]
      s1 == ReplaceRelations(Upsert(d, row), key, cardFile.relations)
      s2 == Then(s1, LAMBDA x : Ok(ReplaceKeywords(x, key, cardFile.keywords)))
      s3 == Then(s2, LAMBDA x : Ok(ReplaceTags(x, key, cardFile.tags)))
  IN Then(s3, LAMBDA x : ReplaceCodeLinks(x, key, cardFile.codeLinks))

RECURSIVE SetToSeq(_)

\* the rows of a table whose order does not matter, as a list
SetToSeq(S) ==
  IF S = {} THEN <<>>
  ELSE LET x == CHOOSE y \in S : TRUE IN <<x>> \o SetToSeq(S \ {x})

\* renameCard's transaction: back up what the old key owns, delete the old
\* row (cascade), insert the row under the new key, re-insert the backup
RenameTx(d, oldKey, newFullKey, card) ==
  LET oldRelations == ForwardRelations(d, oldKey)
      oldKeywords == FindKeywordsByCard(d, oldKey)
      oldTags == FindTagsByCard(d, oldKey)
      oldCodeLinks == SetToSeq(FindCodeLinksByCard(d, oldKey))
      row == [key |-> newFullKey, summary |-> card.summary,
              status |-> card.status,
              constraintsJson |-> ConstraintsJsonIfTruthy(card.constraints),
              body |-> card.body, filePath |-> BuildCardPath(newFullKey)]
      s1 == Ok(Upsert(DeleteByKey(d, oldKey), row))
      s2 == IF Len(oldRelations) > 0
              THEN Then(s1, LAMBDA x :
                              ReplaceRelations(x, newFullKey, oldRelations))
              ELSE s1
      s3 == IF oldKeywords # {}
              THEN Then(s2, LAMBDA x :
                              Ok(ReplaceKeywords(x, newFullKey, oldKeywords)))
              ELSE s2
      s4 == IF oldTags # {}
              THEN Then(s3, LAMBDA x : Ok(ReplaceTags(x, newFullKey, oldTags)))
              ELSE s3
  IN IF Len(oldCodeLinks) > 0
       THEN Then(s4, LAMBDA x :
                       ReplaceCodeLinks(x, newFullKey, oldCodeLinks))
       ELSE s4

(* --------------------------- the key lock ------------------------------ *)

NoPromise == <<0, 0>>

\* Promise.resolve(): a promise that is resolved from the start
ResolvedPromise == <<0, 1>>

\* the `current` promise created by caller p in its lvl-th nested withCardLock
Current(p, lvl) == <<p, lvl>>

NoCall == [op |-> "none", ctx |-> "ctx1", keys |-> <<>>]

NoResult == [kind |-> "none"]

PrevOfIgnoringChain(c, k) == ResolvedPromise

\* const prev = locks.get(key) ?? Promise.resolve()
PrevOf(c, k) ==
  IF cardLocks[c][k] = NoPromise THEN ResolvedPromise ELSE cardLocks[c][k]

IsResolvedAlways(pr) == TRUE

IsResolved(pr) == pr = ResolvedPromise \/ pr \in resolved

LocksSetIfAbsent(locks, c, k, pr) ==
  IF locks[c][k] = NoPromise THEN [locks EXCEPT ![c][k] = pr] ELSE locks

\* locks.set(key, current)
LocksSet(locks, c, k, pr) == [locks EXCEPT ![c][k] = pr]

LocksDeleteNever(locks, c, k, pr) == locks

\* if (locks.get(key) === current) locks.delete(key)
LocksDeleteIfCurrent(locks, c, k, pr) ==
  IF locks[c][k] = pr THEN [locks EXCEPT ![c][k] = NoPromise] ELSE locks

SortKeysUnsorted(k1, k2) == <<k1, k2>>

\* const [firstKey, secondKey] = [oldKey, newFullKey].sort()
SortKeys(k1, k2) == IF KeyRank(k1) <= KeyRank(k2) THEN <<k1, k2>> ELSE <<k2, k1>>

Levels(p) == Len(call[p].keys)

\* the synchronous head of withCardLock(ctx, key, fn), up to `await prev`
EnterLock(p, lvl, c, k) ==
  /\ prev' = [prev EXCEPT ![p][lvl] = PrevOf(c, k)]
  /\ cardLocks' = LocksSet(cardLocks, c, k, Current(p, lvl))
  /\ enqSeq' = [enqSeq EXCEPT ![c][k] = Append(@, Current(p, lvl))]

\* the finally block of withCardLock: release(), then drop the map entry
ExitLock(p, lvl) ==
  LET c == call[p].ctx
      k == call[p].keys[lvl]
  IN /\ resolved' = resolved \cup {Current(p, lvl)}
     /\ cardLocks' = LocksDeleteIfCurrent(cardLocks, c, k, Current(p, lvl))

(* ------------------- callers running an abstract fn -------------------- *)

FnErrors == {"fn failed"}

\* withCardLock(ctx, k, fn), or the nesting renameCard uses:
\* withCardLock(ctx, first, () => withCardLock(ctx, second, fn))
LockKeys == {"a", "b"}

LockCalls ==
  [op : {"fn"}, ctx : Ctxs, keys : {<<k>> : k \in LockKeys}]
    \cup [op : {"fn2"}, ctx : Ctxs,
          keys : {SortKeys(kk[1], kk[2]) :
                    kk \in {x \in LockKeys \X LockKeys : x[1] # x[2]}}]

\* callers are interchangeable: they are numbered in the order they call;
\* so are contexts: "ctx2" is the second context that is used
InOrder(p, cl) ==
  /\ \A q \in 1..(p - 1) : pc[q] # "idle"
  /\ cl.ctx = "ctx2" => \E q \in 1..(p - 1) : call[q].ctx = "ctx1"

\* a caller invokes withCardLock: runs up to the outer `await prev`
Invoke(p, cl) ==
  /\ pc[p] = "idle"
  /\ InOrder(p, cl)
  /\ call' = [call EXCEPT ![p] = cl]
  /\ EnterLock(p, 1, cl.ctx, cl.keys[1])
  /\ pc' = [pc EXCEPT ![p] = "await1"]
  /\ UNCHANGED <<resolved, result>>
  /\ UNCHANGED <<sw, storeVars>>

InvokeFn(p) == \E cl \in LockCalls : Invoke(p, cl)

\* `await prev` of the outer lock resumes and fn() is called.  For a nested
\* lock, fn is the inner withCardLock, which runs on to its own `await prev`.
Acquire1(p) ==
  /\ pc[p] = "await1"
  /\ IsResolved(prev[p][1])
  /\ IF Levels(p) = 2
       THEN /\ EnterLock(p, 2, call[p].ctx, call[p].keys[2])
            /\ pc' = [pc EXCEPT ![p] = "await2"]
       ELSE /\ pc' = [pc EXCEPT ![p] = "body"]
            /\ UNCHANGED <<prev, cardLocks, enqSeq>>
  /\ UNCHANGED <<resolved, call, result>>
  /\ UNCHANGED <<sw, storeVars>>

\* `await prev` of the inner lock resumes and the innermost fn() is called
Acquire2(p) ==
  /\ pc[p] = "await2"
  /\ IsResolved(prev[p][2])
  /\ pc' = [pc EXCEPT ![p] = "body"]
  /\ UNCHANGED <<cardLocks, resolved, prev, call, result, enqSeq>>
  /\ UNCHANGED <<sw, storeVars>>

FinallyPc(p) == IF Levels(p) = 2 THEN "finally2" ELSE "finally1"

\* the abstract fn returns
FnReturn(p) ==
  /\ pc[p] = "body"
  /\ call[p].op \in {"fn", "fn2"}
  /\ result' = [result EXCEPT ![p] = [kind |-> "ok"]]
  /\ pc' = [pc EXCEPT ![p] = FinallyPc(p)]
  /\ UNCHANGED <<cardLocks, resolved, prev, call, enqSeq>>
  /\ UNCHANGED <<sw, storeVars>>

OnThrowPcNoFinally(p) == "done"

\* try { return await Promise.resolve(fn()) } finally { ... }: no catch, a
\* throw runs the finally blocks and the error goes on to the caller
OnThrowPc(p) == FinallyPc(p)

\* the abstract fn throws (or returns a promise that rejects)
FnThrow(p) ==
  /\ pc[p] = "body"
  /\ call[p].op \in {"fn", "fn2"}
  /\ \E e \in FnErrors :
       result' = [result EXCEPT ![p] = [kind |-> "err", err |-> e]]
  /\ pc' = [pc EXCEPT ![p] = OnThrowPc(p)]
  /\ UNCHANGED <<cardLocks, resolved, prev, call, enqSeq>>
  /\ UNCHANGED <<sw, storeVars>>

\* finally of the inner withCardLock
Release2(p) ==
  /\ pc[p] = "finally2"
  /\ ExitLock(p, 2)
  /\ pc' = [pc EXCEPT ![p] = "finally1"]
  /\ UNCHANGED <<prev, call, result, enqSeq>>
  /\ UNCHANGED <<sw, storeVars>>

\* finally of the outer withCardLock; the caller's promise settles
Release1(p) ==
  /\ pc[p] = "finally1"
  /\ ExitLock(p, 1)
  /\ pc' = [pc EXCEPT ![p] = "done"]
  /\ UNCHANGED <<prev, call, result, enqSeq>>
  /\ UNCHANGED <<sw, storeVars>>

\* the steps of the lock itself, shared by every specification
LockStep(p) == Acquire1(p) \/ Acquire2(p) \/ Release2(p) \/ Release1(p)

FnStep(p) == FnReturn(p) \/ FnThrow(p)

InitLockVars ==
  /\ cardLocks = [c \in Ctxs |-> [k \in Keys |-> NoPromise]]
  /\ resolved = {}
  /\ prev = [p \in Callers |-> <<NoPromise, NoPromise>>]
  /\ pc = [p \in Callers |-> "idle"]
  /\ call = [p \in Callers |-> NoCall]
  /\ result = [p \in Callers |-> NoResult]
  /\ enqSeq = [c \in Ctxs |-> [k \in Keys |-> <<>>]]

(* ------------------------- safeWriteOperation -------------------------- *)

\* what the stub dbAction returns (undefined included), what stubs throw
SwValues == {"undefined", "r1", "r2"}

SwErrors == {"e1", "e2"}

SwDbBehaviours ==
  [kind : {"ret"}, val : SwValues] \cup [kind : {"throw"}, err : SwErrors]

SwAsyncBehaviours == {[kind |-> "ok"]} \cup [kind : {"throw"}, err : SwErrors]

SwIdle ==
  [pc |-> "off", db |-> [kind |-> "ret", val |-> "undefined"],
   file |-> [kind |-> "ok"], comp |-> [kind |-> "ok"],
   calls |-> <<>>, out |-> NoResult]

CompensationErrorSwapped(originalError, compensationError) ==
  [kind |-> "CompensationError", originalError |-> compensationError,
   compensationError |-> originalError]

\* new CompensationError(err, compErr)
CompensationError(originalError, compensationError) ==
  [kind |-> "CompensationError", originalError |-> originalError,
   compensationError |-> compensationError]

SwCompensateCallNoArg(dbResult) == [fn |-> "compensate", arg |-> "undefined"]

\* compensate(result)
SwCompensateCall(dbResult) == [fn |-> "compensate", arg |-> dbResult]

\* a bug: dbAction() called inside the try block
SwStartDbInTry ==
  /\ sw.pc = "start"
  /\ IF sw.db.kind = "throw"
       THEN sw' = [sw EXCEPT !.pc = "comp",
                             !.calls = <<[fn |-> "dbAction"],
                                         SwCompensateCall("undefined")>>]
       ELSE sw' = [sw EXCEPT !.pc = "file",
                             !.calls = <<[fn |-> "dbAction"],
                                         [fn |-> "fileAction"]>>]
  /\ UNCHANGED <<lockVars, storeVars>>

\* const result = dbAction(); then fileAction() is called and awaited
SwStart ==
  /\ sw.pc = "start"
  /\ IF sw.db.kind = "throw"
       THEN sw' = [sw EXCEPT !.pc = "thrown",
                             !.calls = <<[fn |-> "dbAction"]>>,
                             !.out = [kind |-> "err", err |-> sw.db.err]]
       ELSE sw' = [sw EXCEPT !.pc = "file",
                             !.calls = <<[fn |-> "dbAction"],
                                         [fn |-> "fileAction"]>>]
  /\ UNCHANGED <<lockVars, storeVars>>

\* fileAction settles: return result, or catch (err) and call compensate
SwFileSettled ==
  /\ sw.pc = "file"
  /\ IF sw.file.kind = "ok"
       THEN sw' = [sw EXCEPT !.pc = "returned",
                             !.out = [kind |-> "ok", val |-> sw.db.val]]
       ELSE sw' = [sw EXCEPT !.pc = "comp",
                             !.calls = Append(@, SwCompensateCall(sw.db.val))]
  /\ UNCHANGED <<lockVars, storeVars>>

\* compensate settles: throw err, or throw new CompensationError(err, compErr)
SwCompSettled ==
  /\ sw.pc = "comp"
  /\ IF sw.comp.kind = "ok"
       THEN sw' = [sw EXCEPT !.pc = "thrown",
                             !.out = [kind |-> "err", err |-> sw.file.err]]
       ELSE sw' = [sw EXCEPT !.pc = "thrown",
                             !.out = CompensationError(sw.file.err, sw.comp.err)]
  /\ UNCHANGED <<lockVars, storeVars>>

(* ------------------------- the card operations ------------------------- *)

\* withRetry's default maxRetries
MaxRetries == 3

\* how many I/O and store faults the environment injects in one behaviour
MaxFaults == 1

\* errors the store can throw on any statement; errors of a file operation
StoreFaults == {"database is locked", "disk I/O error"}

FileFaults == {"EIO"}

\* the fault, if any, injected into the operation at hand, when `used`
\* faults were injected earlier in the same step
Inject(kinds, used) ==
  {"none"} \cup (IF faults + used < MaxFaults THEN kinds ELSE {})

Count(f) == IF f = "none" THEN 0 ELSE 1

NoArg == [none |-> TRUE]

NoLocal ==
  [card |-> NoFile, err |-> Err("none"), before |-> EmptyDb, orig |-> NoFile]

opFrame == <<cardLocks, resolved, prev, call, enqSeq, sw>>

\* where an invocation goes when its function has settled
SettlePc(p) == IF Levels(p) = 0 THEN "done" ELSE FinallyPc(p)

\* the function's promise is fulfilled
Return(p) ==
  /\ result' = [result EXCEPT ![p] = [kind |-> "ok"]]
  /\ pc' = [pc EXCEPT ![p] = SettlePc(p)]
  /\ UNCHANGED attempt

\* the function's promise is rejected with e
Reject(p, e) ==
  /\ result' = [result EXCEPT ![p] = [kind |-> "err", err |-> e]]
  /\ pc' = [pc EXCEPT ![p] = SettlePc(p)]
  /\ UNCHANGED attempt

\* the maxRetries option of the withRetry call: the card operations pass
\* no options
MaxRetriesOf(p) ==
  IF call[p].op = "withRetry" THEN call[p].arg.maxRetries ELSE MaxRetries

ShouldRetryOnceMore(e, att, maxRetries) ==
  IsSqliteBusy(e) /\ att <= maxRetries

\* the catch block of withRetry goes on to sleep and to another attempt
ShouldRetry(e, att, maxRetries) == IsSqliteBusy(e) /\ att < maxRetries

\* fn throws e inside withRetry: a busy error is kept as lastError and
\* retried after a sleep while attempt < maxRetries; anything else, or the
\* last busy error, is rethrown
Throw(p, e) ==
  IF ShouldRetry(e, attempt[p], MaxRetriesOf(p))
    THEN /\ attempt' = [attempt EXCEPT ![p] = @ + 1]
         /\ pc' = [pc EXCEPT ![p] = "sleep"]
         /\ result' = [result EXCEPT
                         ![p] = [kind |-> "pending", lastError |-> e]]
    ELSE Reject(p, e)

\* Bun.sleep(delay) is over: the loop of withRetry calls fn again
RetryWake(p) ==
  /\ pc[p] = "sleep"
  /\ pc' = [pc EXCEPT ![p] = "body"]
  /\ UNCHANGED <<result, attempt, files, db, local, faults, trace, opFrame>>

AfterDbActionUncommitted(p, tx, card) ==
  /\ local' = [local EXCEPT ![p].card = card]
  /\ pc' = [pc EXCEPT ![p] = "file"]
  /\ UNCHANGED <<db, trace, result, attempt>>

\* safeWriteOperation after dbAction: on success go on to fileAction with
\* the card to write; a throwing dbAction propagates
AfterDbAction(p, tx, card) ==
  IF tx.ok
    THEN /\ db' = tx.db
         /\ local' = [local EXCEPT ![p].card = card, ![p].before = db]
         /\ trace' = [trace EXCEPT ![p] = Append(@, "db")]
         /\ pc' = [pc EXCEPT ![p] = "file"]
         /\ UNCHANGED <<result, attempt>>
    ELSE /\ Throw(p, tx.err)
         /\ UNCHANGED <<db, local, trace>>

\* readCardFile(filePath): the card the file holds
ReadCardFile(fs, key) == fs[key]

\* writeCardFile(filePath, card): the file then holds the card
WriteCardFile(fs, key, card) == [fs EXCEPT ![key] = card]

\* deleteCardFile(filePath)
DeleteCardFile(fs, key) == [fs EXCEPT ![key] = NoFile]

RenameFileCopying(fs, from, to) == [fs EXCEPT ![to] = fs[from]]

\* rename(from, to) of node:fs/promises
RenameFile(fs, from, to) == [fs EXCEPT ![from] = NoFile, ![to] = fs[from]]

\* getCard(ctx, fullKey): the card read from the file, or CardNotFoundError
GetCard(fs, key) ==
  IF fs[key] = NoFile THEN [ok |-> FALSE, err |-> Err("CardNotFoundError")]
  ELSE [ok |-> TRUE, card |-> ReadCardFile(fs, key)]

FileExistsNever(key) == FALSE

\* await Bun.file(filePath).exists()
FileExists(key) == files[key] # NoFile

HasBadRelationType(relations) ==
  \E i \in 1..Len(relations) : relations[i].type \notin AllowedRelationTypes

\* the type of the first relation the allow-list rejects
FirstBadType(relations) ==
  LET bad(i) == relations[i].type \notin AllowedRelationTypes
  IN relations[CHOOSE i \in 1..Len(relations) :
                 bad(i) /\ \A j \in 1..(i - 1) : ~bad(j)].type

\* createCard, from the start of fn to the end of dbAction
CreateDbAction(p) ==
  /\ pc[p] = "body"
  /\ call[p].op = "create"
  /\ LET fullKey == call[p].key
         input == call[p].arg
     IN IF HasBadRelationType(input.relations)
          THEN /\ Throw(p, RelationTypeError(FirstBadType(input.relations)))
               /\ UNCHANGED <<db, local, trace, faults>>
          ELSE IF FileExists(fullKey)
                 THEN /\ Throw(p, Err("CardAlreadyExistsError"))
                      /\ UNCHANGED <<db, local, trace, faults>>
                 ELSE \E f \in Inject(StoreFaults, 0) :
                        /\ faults' = faults + Count(f)
                        /\ AfterDbAction(p,
                             IF f = "none" THEN CreateTx(db, fullKey, input)
                             ELSE Failed(Err(f)),
                             CreateCardFile(fullKey, input))
  /\ UNCHANGED <<files, opFrame>>

CreateCompensateNothing(d, fullKey) == d

\* createCard's compensate: ctx.cardRepo.deleteByKey(fullKey)
CreateCompensate(d, fullKey) == DeleteByKey(d, fullKey)

\* createCard's fileAction, and on its failure the compensation
CreateFileAction(p) ==
  /\ pc[p] = "file"
  /\ call[p].op = "create"
  /\ LET fullKey == call[p].key
     IN \E f \in Inject(FileFaults, 0) :
          IF f = "none"
            THEN /\ files' = WriteCardFile(files, fullKey, local[p].card)
                 /\ trace' = [trace EXCEPT ![p] = Append(@, "file")]
                 /\ Return(p)
                 /\ UNCHANGED <<db, faults>>
            ELSE \E g \in Inject(StoreFaults, 1) :
                   /\ faults' = faults + 1 + Count(g)
                   /\ IF g = "none"
                        THEN /\ db' = CreateCompensate(db, fullKey)
                             /\ Throw(p, Err(f))
                        ELSE /\ db' = db
                             /\ Throw(p, CompensationError(Err(f), Err(g)))
                   /\ UNCHANGED <<files, trace>>
  /\ UNCHANGED <<local, opFrame>>

\* updateCard, from the start of fn to the end of dbAction
UpdateDbAction(p) ==
  /\ pc[p] = "body"
  /\ call[p].op = "update"
  /\ LET key == call[p].key
         fields == call[p].arg
         current == ReadCardFile(files, key)
         next == NextCard(current, fields)
     IN IF ~FileExists(key) \/ current.key # key
          THEN /\ Throw(p, Err("CardNotFoundError"))
               /\ UNCHANGED <<db, local, trace, faults>>
          ELSE IF fields.relations.given
                    /\ HasBadRelationType(fields.relations.val)
                 THEN /\ Throw(p, RelationTypeError(
                                     FirstBadType(fields.relations.val)))
                      /\ UNCHANGED <<db, local, trace, faults>>
                 ELSE \E f \in Inject(StoreFaults, 0) :
                        /\ faults' = faults + Count(f)
                        /\ AfterDbAction(p,
                             IF f = "none" THEN UpdateTx(db, key, next, fields)
                             ELSE Failed(Err(f)),
                             next)
  /\ UNCHANGED <<files, opFrame>>

\* updateCardStatus, from the start of fn to the end of dbAction
StatusDbAction(p) ==
  /\ pc[p] = "body"
  /\ call[p].op = "updateStatus"
  /\ LET key == call[p].key
         status == call[p].arg.status
         current == ReadCardFile(files, key)
     IN IF ~FileExists(key) \/ current.key # key
          THEN /\ Throw(p, Err("CardNotFoundError"))
               /\ UNCHANGED <<db, local, trace, faults>>
          ELSE \E f \in Inject(StoreFaults, 0) :
                 /\ faults' = faults + Count(f)
                 /\ AfterDbAction(p,
                      IF f = "none"
                        THEN Ok(UpdateStatusDb(db, key, current, status))
                        ELSE Failed(Err(f)),
                      [current EXCEPT !.status = status])
  /\ UNCHANGED <<files, opFrame>>

\* deleteCard, from the start of fn to the end of dbAction
DeleteDbAction(p) ==
  /\ pc[p] = "body"
  /\ call[p].op = "delete"
  /\ LET key == call[p].key
     IN IF ~FileExists(key)
          THEN /\ Throw(p, Err("CardNotFoundError"))
               /\ UNCHANGED <<db, local, trace, faults>>
          ELSE \E f \in Inject(StoreFaults, 0) :
                 /\ faults' = faults + Count(f)
                 /\ AfterDbAction(p,
                      IF f = "none" THEN Ok(DeleteByKey(db, key))
                      ELSE Failed(Err(f)),
                      NoFile)
  /\ UNCHANGED <<files, opFrame>>

\* the fileAction of updateCard, updateCardStatus (writeCardFile) and of
\* deleteCard (deleteCardFile); on failure compensate() calls
\* syncCardFromFile, which starts reading the file
WriteFileAction(p) ==
  /\ pc[p] = "file"
  /\ call[p].op \in {"update", "updateStatus", "delete"}
  /\ \E f \in Inject(FileFaults, 0) :
       /\ faults' = faults + Count(f)
       /\ IF f = "none"
            THEN /\ files' = IF call[p].op = "delete"
                                THEN DeleteCardFile(files, call[p].key)
                                ELSE WriteCardFile(files, call[p].key,
                                                   local[p].card)
                 /\ trace' = [trace EXCEPT ![p] = Append(@, "file")]
                 /\ Return(p)
                 /\ UNCHANGED local
            ELSE /\ local' = [local EXCEPT ![p].err = Err(f)]
                 /\ pc' = [pc EXCEPT ![p] = "comp"]
                 /\ UNCHANGED <<files, trace, result, attempt>>
  /\ UNCHANGED <<db, opFrame>>

CompensateNothing(d, slug, cardFile) == Ok(d)

\* compensate: async () => { await syncCardFromFile(ctx, filePath) }, after
\* the file was read
Compensate(d, slug, cardFile) == SyncTx(d, slug, cardFile)

\* the rest of compensate(): syncCardFromFile's transaction over the file as
\* it is; then the file error is rethrown, or a CompensationError is thrown
CompensateSync(p) ==
  /\ pc[p] = "comp"
  /\ LET slug == call[p].key
         cardFile == ReadCardFile(files, slug)
     IN IF cardFile = NoFile
          THEN /\ Throw(p, CompensationError(local[p].err, Err("ENOENT")))
               /\ UNCHANGED <<db, faults>>
          ELSE \E g \in Inject(StoreFaults, 0) :
                 LET tx == IF g = "none" THEN Compensate(db, slug, cardFile)
                           ELSE Failed(Err(g))
                 IN /\ faults' = faults + Count(g)
                    /\ IF tx.ok
                         THEN /\ db' = tx.db
                              /\ Throw(p, local[p].err)
                         ELSE /\ db' = db
                              /\ Throw(p, CompensationError(local[p].err,
                                                            tx.err))
  /\ UNCHANGED <<files, local, trace, opFrame>>

\* renameCard: the two existence checks, mkdir, rename(oldFilePath,
\* newFilePath)
RenameMove(p) ==
  /\ pc[p] = "body"
  /\ call[p].op = "rename"
  /\ LET oldKey == call[p].key
         newFullKey == call[p].arg.newSlug
     IN IF ~FileExists(oldKey)
          THEN /\ Throw(p, Err("CardNotFoundError"))
               /\ UNCHANGED <<files, local, trace, faults>>
          ELSE IF FileExists(newFullKey)
                 THEN /\ Throw(p, Err("CardAlreadyExistsError"))
                      /\ UNCHANGED <<files, local, trace, faults>>
                 ELSE \E f \in Inject(FileFaults, 0) :
                        /\ faults' = faults + Count(f)
                        /\ IF f = "none"
                             THEN /\ files' = RenameFile(files, oldKey,
                                                          newFullKey)
                                  /\ local' = [local EXCEPT
                                                 ![p].orig = files[oldKey]]
                                  /\ trace' = [trace EXCEPT
                                                 ![p] = Append(@, "file")]
                                  /\ pc' = [pc EXCEPT ![p] = "rewrite"]
                                  /\ UNCHANGED <<result, attempt>>
                             ELSE /\ Throw(p, Err(f))
                                  /\ UNCHANGED <<files, local, trace>>
  /\ UNCHANGED <<db, opFrame>>

\* renameCard: read the moved file, write it back with key: newFullKey
RenameRewrite(p) ==
  /\ pc[p] = "rewrite"
  /\ LET newFullKey == call[p].arg.newSlug
         card == [ReadCardFile(files, newFullKey) EXCEPT !.key = newFullKey]
     IN \E f \in Inject(FileFaults, 0) :
          /\ faults' = faults + Count(f)
          /\ IF f = "none"
               THEN /\ files' = WriteCardFile(files, newFullKey, card)
                    /\ local' = [local EXCEPT ![p].card = card]
                    /\ trace' = [trace EXCEPT ![p] = Append(@, "file")]
                    /\ pc' = [pc EXCEPT ![p] = "tx"]
                    /\ UNCHANGED <<result, attempt>>
               ELSE /\ Throw(p, Err(f))
                    /\ UNCHANGED <<files, local, trace>>
  /\ UNCHANGED <<db, opFrame>>

\* renameCard: the store transaction; when it throws, the catch block starts
\* moving the file back
RenameDb(p) ==
  /\ pc[p] = "tx"
  /\ LET oldKey == call[p].key
         newFullKey == call[p].arg.newSlug
     IN \E f \in Inject(StoreFaults, 0) :
          LET tx == IF f = "none"
                      THEN RenameTx(db, oldKey, newFullKey, local[p].card)
                      ELSE Failed(Err(f))
          IN /\ faults' = faults + Count(f)
             /\ IF tx.ok
                  THEN /\ db' = tx.db
                       /\ local' = [local EXCEPT ![p].before = db]
                       /\ trace' = [trace EXCEPT ![p] = Append(@, "db")]
                       /\ Return(p)
                  ELSE /\ local' = [local EXCEPT ![p].err = tx.err,
                                                 ![p].before = db]
                       /\ pc' = [pc EXCEPT ![p] = "restore"]
                       /\ UNCHANGED <<db, trace, result, attempt>>
  /\ UNCHANGED <<files, opFrame>>

RestoredCardAsMoved(orig, oldKey) == orig

\* renameCard's catch block: { ...orig.frontmatter, key: oldKey }, orig.body
RestoredCard(orig, oldKey) == [orig EXCEPT !.key = oldKey]

\* renameCard's catch block: rename(newFilePath, oldFilePath), read, write
\* the file with key: oldKey, rethrow the store error
RenameRestore(p) ==
  /\ pc[p] = "restore"
  /\ LET oldKey == call[p].key
         newFullKey == call[p].arg.newSlug
         moved == RenameFile(files, newFullKey, oldKey)
         restored == RestoredCard(ReadCardFile(moved, oldKey), oldKey)
     IN \E f \in Inject({"EIO in rename", "EIO in write"}, 0) :
          /\ faults' = faults + Count(f)
          /\ IF f = "none"
               THEN /\ files' = WriteCardFile(moved, oldKey, restored)
                    /\ trace' = [trace EXCEPT ![p] = Append(@, "file")]
                    /\ Throw(p, local[p].err)
               ELSE /\ files' = IF f = "EIO in write" THEN moved ELSE files
                    /\ trace' = IF f = "EIO in write"
                                  THEN [trace EXCEPT ![p] = Append(@, "file")]
                                  ELSE trace
                    /\ Throw(p, Err("EIO"))
  /\ UNCHANGED <<db, local, opFrame>>

\* syncCardFromFile(ctx, filePath) is called: it takes no lock and starts
\* reading the file
SyncInvoke(p, cl) ==
  /\ pc[p] = "idle"
  /\ InOrder(p, cl)
  /\ call' = [call EXCEPT ![p] = cl]
  /\ pc' = [pc EXCEPT ![p] = "read"]
  /\ UNCHANGED <<cardLocks, resolved, prev, result, enqSeq, sw, storeVars>>

\* readCardFile(filePath) completes
SyncRead(p) ==
  /\ pc[p] = "read"
  /\ LET cardFile == ReadCardFile(files, call[p].key)
     IN IF cardFile = NoFile
          THEN /\ Reject(p, Err("ENOENT"))
               /\ UNCHANGED local
          ELSE /\ local' = [local EXCEPT ![p].card = cardFile]
               /\ pc' = [pc EXCEPT ![p] = "synctx"]
               /\ UNCHANGED <<result, attempt>>
  /\ UNCHANGED <<files, db, faults, trace, opFrame>>

\* syncCardFromFile resumes after the read and runs its transaction
SyncCommit(p) ==
  /\ pc[p] = "synctx"
  /\ \E f \in Inject(StoreFaults, 0) :
       LET tx == IF f = "none"
                   THEN SyncTx(db, call[p].key, local[p].card)
                   ELSE Failed(Err(f))
       IN /\ faults' = faults + Count(f)
          /\ IF tx.ok
               THEN /\ db' = tx.db
                    /\ local' = [local EXCEPT ![p].before = db]
                    /\ trace' = [trace EXCEPT ![p] = Append(@, "db")]
                    /\ Return(p)
               ELSE /\ Reject(p, tx.err)
                    /\ UNCHANGED <<db, local, trace>>
  /\ UNCHANGED <<files, opFrame>>

\* something outside the engine writes a card file, or removes it
ExternalEdit(p, cl) ==
  /\ pc[p] = "idle"
  /\ InOrder(p, cl)
  /\ call' = [call EXCEPT ![p] = cl]
  /\ files' = WriteCardFile(files, cl.key, cl.arg.content)
  /\ result' = [result EXCEPT ![p] = [kind |-> "ok"]]
  /\ pc' = [pc EXCEPT ![p] = "done"]
  /\ UNCHANGED <<cardLocks, resolved, prev, enqSeq, sw>>
  /\ UNCHANGED <<db, local, attempt, faults, trace>>

\* removeCardByFile(ctx, filePath): findByFilePath, then deleteByKey.  The
\* query has no ORDER BY: of several rows with the path it returns any one
RemoveCardByFile(p, cl) ==
  /\ pc[p] = "idle"
  /\ InOrder(p, cl)
  /\ call' = [call EXCEPT ![p] = cl]
  /\ LET rows == {k \in Keys : /\ HasRow(db, k)
                                /\ db.card[k].filePath = BuildCardPath(cl.key)}
     IN IF rows = {}
          THEN db' = db
          ELSE \E k \in rows : db' = DeleteByKey(db, k)
  /\ local' = [local EXCEPT ![p].before = db]
  /\ result' = [result EXCEPT ![p] = [kind |-> "ok"]]
  /\ pc' = [pc EXCEPT ![p] = "done"]
  /\ UNCHANGED <<cardLocks, resolved, prev, enqSeq, sw>>
  /\ UNCHANGED <<files, attempt, faults, trace>>

\* the steps of the operations that run under the key lock
LockedOpStep(p) ==
  \/ CreateDbAction(p) \/ CreateFileAction(p)
  \/ UpdateDbAction(p) \/ StatusDbAction(p) \/ DeleteDbAction(p)
  \/ WriteFileAction(p) \/ CompensateSync(p)
  \/ RenameMove(p) \/ RenameRewrite(p) \/ RenameDb(p) \/ RenameRestore(p)
  \/ RetryWake(p)

SyncStep(p) == SyncRead(p) \/ SyncCommit(p)

InitStoreVars ==
  /\ files = [k \in Keys |-> NoFile]
  /\ db = EmptyDb
  /\ local = [p \in Callers |-> NoLocal]
  /\ attempt = [p \in Callers |-> 0]
  /\ faults = 0
  /\ trace = [p \in Callers |-> <<>>]

(* ------------------------------ the calls ------------------------------ *)

\* the keys the operations are called with, and the other one of the two
OpKeys == {"a", "b"}

Other(k) == IF k = "a" THEN "b" ELSE "a"

Link1 == [kind |-> "function", file |-> "src/x.ts", symbol |-> "f"]

\* createCard inputs: only the required fields, or every field
PlainInput ==
  [summary |-> "s1", body |-> "", keywords |-> {}, tags |-> {},
   relations |-> <<>>, codeLinks |-> <<>>, constraints |-> NoConstraints]

FullInput(k) ==
  [summary |-> "s2", body |-> "b1", keywords |-> {"k1"}, tags |-> {"t1"},
   relations |-> <<[type |-> "depends-on", target |-> Other(k)]>>,
   codeLinks |-> <<Link1>>, constraints |-> NoConstraints]

NoFields ==
  [summary |-> Undefined, body |-> Undefined, keywords |-> Undefined,
   tags |-> Undefined, relations |-> Undefined, codeLinks |-> Undefined,
   constraints |-> Undefined]

\* updateCard fields: { summary }, new relations and keywords, or every
\* optional field cleared
SummaryOnly == [NoFields EXCEPT !.summary = Given("s3")]

NewRelations(k) ==
  [NoFields EXCEPT
     !.relations = Given(<<[type |-> "related", target |-> Other(k)]>>),
     !.keywords = Given({"k2"})]

Cleared ==
  [NoFields EXCEPT
     !.relations = Given(<<>>), !.keywords = Given({}), !.tags = Given({}),
     !.codeLinks = Given(<<>>), !.body = Given("b2")]

\* a card file as an editor outside the engine leaves it
EditedCard(k) ==
  [key |-> k, summary |-> "s4", status |-> "accepted",
   constraints |-> NoConstraints, keywords |-> {"k1"}, tags |-> {},
   relations |-> <<[type |-> "depends-on", target |-> Other(k)]>>,
   codeLinks |-> <<>>, body |-> "b1"]

OpCall(op, keys, key, arg) ==
  [op |-> op, ctx |-> "ctx1", keys |-> keys, key |-> key, arg |-> arg]

CreateCalls ==
  UNION {{OpCall("create", <<k>>, k, PlainInput),
          OpCall("create", <<k>>, k, FullInput(k))} : k \in OpKeys}

UpdateCalls ==
  UNION {{OpCall("update", <<k>>, k, SummaryOnly),
          OpCall("update", <<k>>, k, NewRelations(k)),
          OpCall("update", <<k>>, k, Cleared)} : k \in OpKeys}

StatusCalls ==
  {OpCall("updateStatus", <<k>>, k, [status |-> "accepted"]) : k \in OpKeys}

DeleteCalls == {OpCall("delete", <<k>>, k, NoArg) : k \in OpKeys}

RenameCalls ==
  {OpCall("rename", SortKeys(k, Other(k)), k, [newSlug |-> Other(k)]) :
     k \in OpKeys}

SyncCalls == {OpCall("sync", <<>>, k, NoArg) : k \in OpKeys}

EditCalls ==
  UNION {{OpCall("edit", <<>>, k, [content |-> EditedCard(k)]),
          OpCall("edit", <<>>, k, [content |-> NoFile])} : k \in OpKeys}

LockedCalls ==
  CreateCalls \cup UpdateCalls \cup StatusCalls \cup DeleteCalls
    \cup RenameCalls

(* --------------- operations one after another (SpecSeq) ---------------- *)

\* every earlier invocation has settled
SeqReady(p) == \A q \in 1..(p - 1) : pc[q] = "done"

\* the calls of the sequential specification: every operation on card "a"
\* (of the updates, those that replace or clear a list), and the creation of
\* its neighbour "b"
SeqCalls ==
  {cl \in LockedCalls \cup SyncCalls \cup EditCalls :
     \/ cl.key = "a" /\ cl.arg # SummaryOnly
     \/ cl.op = "create" /\ cl.arg = PlainInput}

SeqInvoke(p) ==
  SeqReady(p) /\ \E cl \in SeqCalls \cap LockedCalls : Invoke(p, cl)

SeqSync(p) ==
  SeqReady(p) /\ \E cl \in SeqCalls \cap SyncCalls : SyncInvoke(p, cl)

SeqEdit(p) ==
  SeqReady(p) /\ \E cl \in SeqCalls \cap EditCalls : ExternalEdit(p, cl)

InitSeq == InitLockVars /\ sw = SwIdle /\ InitStoreVars

NextSeq ==
  \E p \in Callers :
    \/ SeqInvoke(p) \/ SeqSync(p) \/ SeqEdit(p)
    \/ LockStep(p) \/ LockedOpStep(p) \/ SyncStep(p)

SpecSeq == InitSeq /\ [][NextSeq]_vars

(* ------------- operations on a graph of cards (SpecGraph) -------------- *)

\* constraints: false, a value that is defined and falsy
FalseConstraints == [json |-> "false", truthy |-> FALSE]

\* createCard inputs: every field given, with constraints: false; a
\* relation of the card to itself
GraphInput == [FullInput("a") EXCEPT !.constraints = FalseConstraints]

SelfInput ==
  [PlainInput EXCEPT
     !.relations = <<[type |-> "depends-on", target |-> "a"]>>]

\* updateCard fields: a relation of the card to itself
SelfRelation ==
  [NoFields EXCEPT
     !.relations = Given(<<[type |-> "depends-on", target |-> "a"]>>)]

\* files an editor leaves at the path of "a": one declaring a relation of
\* the card to itself, one whose front-matter key is "b"
SelfEdited ==
  [EditedCard("a") EXCEPT
     !.relations = <<[type |-> "depends-on", target |-> "a"]>>]

MismatchEdited == [EditedCard("a") EXCEPT !.key = "b", !.relations = <<>>]

GraphLockedCalls ==
  {OpCall("create", <<"a">>, "a", GraphInput),
   OpCall("create", <<"a">>, "a", SelfInput),
   OpCall("create", <<"b">>, "b", PlainInput),
   OpCall("update", <<"a">>, "a", SelfRelation),
   OpCall("update", <<"a">>, "a", NewRelations("a")),
   OpCall("update", <<"b">>, "b", NewRelations("b")),
   OpCall("updateStatus", <<"a">>, "a", [status |-> "accepted"]),
   OpCall("delete", <<"a">>, "a", NoArg),
   OpCall("rename", SortKeys("a", "d/c"), "a", [newSlug |-> "d/c"])}

GraphEditCalls ==
  {OpCall("edit", <<>>, "a", [content |-> SelfEdited]),
   OpCall("edit", <<>>, "a", [content |-> MismatchEdited])}

GraphInvoke(p) ==
  SeqReady(p) /\ \E cl \in GraphLockedCalls : Invoke(p, cl)

GraphSync(p) ==
  SeqReady(p) /\ SyncInvoke(p, OpCall("sync", <<>>, "a", NoArg))

GraphEdit(p) ==
  SeqReady(p) /\ \E cl \in GraphEditCalls : ExternalEdit(p, cl)

GraphRemove(p) ==
  SeqReady(p) /\ RemoveCardByFile(p, OpCall("remove", <<>>, "a", NoArg))

NextGraph ==
  \E p \in Callers :
    \/ GraphInvoke(p) \/ GraphSync(p) \/ GraphEdit(p) \/ GraphRemove(p)
    \/ LockStep(p) \/ LockedOpStep(p) \/ SyncStep(p)

SpecGraph == InitSeq /\ [][NextGraph]_vars

(* ---------------------- withRetry by itself (SpecRetry) ---------------- *)

\* the invocations of the withRetry specification
RetryCallers == {1, 2}

\* options.maxRetries: the default and smaller values (a negative one too)
RetryOptions == {-1, 0, 1, MaxRetries}

RetryCalls ==
  {OpCall("withRetry", <<>>, "a", [maxRetries |-> m]) : m \in RetryOptions}

\* the store's busy error, as thrown by the n-th attempt
BusyErrorAt(n) == [kind |-> "database is locked", at |-> n]

\* what the stub fn does when called on attempt n: return, or throw
StubOutcomes(n) ==
  {[kind |-> "returns"], BusyErrorAt(n), Err("CardNotFoundError"),
   RelationTypeError("blocks"), ThrownString}

OutcomeLabel(o) ==
  IF o.kind = "returns" THEN "returned"
  ELSE IF IsSqliteBusy(o) THEN "busy" ELSE "threw"

\* withRetry(fn, {maxRetries}) is called: the for loop is entered unless
\* 0 <= maxRetries is false, in which case `throw lastError` (undefined)
RetryInvoke(p) ==
  /\ pc[p] = "idle"
  /\ SeqReady(p)
  /\ \E cl \in RetryCalls :
       /\ call' = [call EXCEPT ![p] = cl]
       /\ IF cl.arg.maxRetries < 0
            THEN /\ result' = [result EXCEPT
                                 ![p] = [kind |-> "err",
                                         err |-> [kind |-> "undefined"]]]
                 /\ pc' = [pc EXCEPT ![p] = "done"]
            ELSE /\ pc' = [pc EXCEPT ![p] = "body"]
                 /\ UNCHANGED result
  /\ UNCHANGED <<cardLocks, resolved, prev, enqSeq, sw, storeVars>>

\* one attempt: await Promise.resolve(fn()) with the stub fn
RetryFn(p) ==
  /\ pc[p] = "body"
  /\ call[p].op = "withRetry"
  /\ \E o \in StubOutcomes(attempt[p]) :
       /\ trace' = [trace EXCEPT ![p] = Append(@, OutcomeLabel(o))]
       /\ IF o.kind = "returns" THEN Return(p) ELSE Throw(p, o)
  /\ UNCHANGED <<files, db, local, faults, opFrame>>

\* createCard with a relation whose type is not in the allow-list
BadTypeInput(type) ==
  [PlainInput EXCEPT !.relations = <<[type |-> type, target |-> "b"]>>]

BadTypeCalls ==
  {OpCall("create", <<"a">>, "a", BadTypeInput(t)) :
     t \in {"blocks", "database is locked"}}

RetryCreate(p) == SeqReady(p) /\ \E cl \in BadTypeCalls : Invoke(p, cl)

InitRetry == InitLockVars /\ sw = SwIdle /\ InitStoreVars

NextRetry ==
  \E p \in RetryCallers :
    \/ RetryInvoke(p) \/ RetryFn(p) \/ RetryWake(p)
    \/ RetryCreate(p) \/ Acquire1(p) \/ CreateDbAction(p) \/ Release1(p)

SpecRetry == InitRetry /\ [][NextRetry]_vars

(* ------- updateCard's optional front-matter fields (SpecFields) -------- *)

\* fields.x === null
FieldNull == [given |-> TRUE, null |-> TRUE]

\* next.x after `if (fields.x !== undefined) { if (fields.x === null ||
\* fields.x.length === 0) delete next.x; else next.x = fields.x }`, for the
\* lists that are sequences here (relations, codeLinks) ...
NextListKeepingEmpty(current, field) ==
  IF ~field.given THEN current
  ELSE IF field = FieldNull THEN Undefined ELSE Given(field.val)

NextList(current, field) ==
  IF ~field.given THEN current
  ELSE IF field = FieldNull \/ Len(field.val) = 0 THEN Undefined
       ELSE Given(field.val)

\* ... and for those that are sets here (keywords, tags)
NextNames(current, field) ==
  IF ~field.given THEN current
  ELSE IF field = FieldNull \/ field.val = {} THEN Undefined
       ELSE Given(field.val)

\* next.relations ?? [], next.codeLinks ?? []
OrEmptyList(x) == IF x.given THEN x.val ELSE <<>>

\* next.keywords ?? [], next.tags ?? []
OrNoNames(x) == IF x.given THEN x.val ELSE {}

\* the card file as the operations above read it: absent lists are empty
ReadPlain(f) ==
  [f EXCEPT !.relations = OrEmptyList(@), !.codeLinks = OrEmptyList(@),
            !.keywords = OrNoNames(@), !.tags = OrNoNames(@)]

\* the front matter updateCard composes from the current one
NextFrontmatter(current, fields) ==
  [current EXCEPT
     !.keywords = NextNames(@, fields.keywords),
     !.tags = NextNames(@, fields.tags),
     !.relations = NextList(@, fields.relations),
     !.codeLinks = NextList(@, fields.codeLinks)]

\* updateCard's transaction over the composed front matter
FieldsTx(d, key, next, fields) ==
  LET row == [key |-> key, summary |-> next.summary, status |-> next.status,
              constraintsJson |-> ConstraintsJsonIfTruthy(next.constraints),
              body |-> next.body, filePath |-> BuildCardPath(key)]
      s1 == Ok(Upsert(d, row))
      s2 == IF fields.relations.given
              THEN Then(s1, LAMBDA x :
                     ReplaceRelations(x, key, OrEmptyList(next.relations)))
              ELSE s1
      s3 == IF fields.keywords.given
              THEN Then(s2, LAMBDA x :
                     Ok(ReplaceKeywords(x, key, OrNoNames(next.keywords))))
              ELSE s2
      s4 == IF fields.tags.given
              THEN Then(s3, LAMBDA x :
                     Ok(ReplaceTags(x, key, OrNoNames(next.tags))))
              ELSE s3
  IN IF fields.codeLinks.given
       THEN Then(s4, LAMBDA x :
              ReplaceCodeLinks(x, key, OrEmptyList(next.codeLinks)))
       ELSE s4

Link2 == [kind |-> "function", file |-> "src/b.ts", symbol |-> "g"]

\* what a caller passes for a list field: undefined, null, [], a list
RelationFields ==
  {Undefined, FieldNull, Given(<<>>),
   Given(<<[type |-> "related", target |-> "b"]>>),
   Given(<<[type |-> "blocks", target |-> "b"]>>)}

CodeLinkFields == {Undefined, FieldNull, Given(<<>>), Given(<<Link2>>)}

NameFields == {Undefined, FieldNull, Given({}), Given({"k2"})}

FieldsCalls ==
  [summary : {Undefined}, body : {Undefined}, constraints : {Undefined},
   relations : RelationFields, codeLinks : CodeLinkFields,
   keywords : NameFields, tags : NameFields]

\* the card files the update starts from: each optional field is absent
\* or holds a value
FieldsFiles ==
  [key : {"a"}, summary : {"s1"}, status : {"draft"},
   constraints : {NoConstraints}, body : {"b1"},
   relations : {Undefined, Given(<<[type |-> "depends-on", target |-> "b"]>>)},
   codeLinks : {Undefined, Given(<<Link1>>)},
   keywords : {Undefined, Given({"k1"})},
   tags : {Undefined, Given({"t1"})}]

\* the store after the card files of the directory were synced; card "b"
\* has a row or has none
FieldsDbs(f) ==
  {SyncTx(d, "a", ReadPlain(f)).db :
     d \in {EmptyDb,
            Upsert(EmptyDb, [key |-> "b", summary |-> "s1", status |-> "draft",
                             constraintsJson |-> "null", body |-> "",
                             filePath |-> BuildCardPath("b")])}}

\* updateCard(ctx, "a", fields) from the existence check to the file write,
\* with no fault
FieldsUpdate(p) ==
  /\ pc[p] = "idle"
  /\ SeqReady(p)
  /\ \E fields \in FieldsCalls :
       LET current == files["a"]
           next == NextFrontmatter(current, fields)
           tx == FieldsTx(db, "a", next, fields)
       IN /\ call' = [call EXCEPT ![p] = OpCall("update", <<"a">>, "a", fields)]
          /\ IF /\ fields.relations.given /\ fields.relations # FieldNull
                /\ HasBadRelationType(fields.relations.val)
               THEN /\ result' = [result EXCEPT ![p] =
                         [kind |-> "err",
                          err |-> RelationTypeError(
                                    FirstBadType(fields.relations.val))]]
                    /\ UNCHANGED <<db, files, local>>
               ELSE IF tx.ok
                      THEN /\ db' = tx.db
                           /\ files' = WriteCardFile(files, "a", next)
                           /\ local' = [local EXCEPT ![p].before = db,
                                                     ![p].orig = current]
                           /\ result' = [result EXCEPT ![p] = [kind |-> "ok"]]
                      ELSE /\ result' = [result EXCEPT ![p] =
                                [kind |-> "err", err |-> tx.err]]
                           /\ UNCHANGED <<db, files, local>>
          /\ pc' = [pc EXCEPT ![p] = "done"]
  /\ UNCHANGED <<cardLocks, resolved, prev, enqSeq, sw>>
  /\ UNCHANGED <<attempt, faults, trace>>

InitFields ==
  /\ InitLockVars
  /\ sw = SwIdle
  /\ \E f \in FieldsFiles :
       /\ files = [k \in Keys |-> IF k = "a" THEN f ELSE NoFile]
       /\ db \in FieldsDbs(f)
  /\ local = [p \in Callers |-> NoLocal]
  /\ attempt = [p \in Callers |-> 0]
  /\ faults = 0
  /\ trace = [p \in Callers |-> <<>>]

NextFields == FieldsUpdate(1)

SpecFields == InitFields /\ [][NextFields]_vars

(* ------------- two operations racing on one context (SpecRace) --------- *)

\* the two racing invocations
Racers == {1, 2}

\* the cards directory and the store after createCard(ctx, {slug: "a",
\* summary: "s1"}) has completed
RaceFiles ==
  [k \in Keys |-> IF k = "a" THEN CreateCardFile("a", PlainInput) ELSE NoFile]

RaceDb == CreateTx(EmptyDb, "a", PlainInput).db

RaceCalls ==
  {cl \in LockedCalls : cl.op # "update" \/ cl.arg # Cleared}

RaceInvoke(p) == \E cl \in RaceCalls : Invoke(p, cl)

InitRace ==
  /\ InitLockVars
  /\ sw = SwIdle
  /\ files = RaceFiles
  /\ db = RaceDb
  /\ local = [p \in Callers |-> NoLocal]
  /\ attempt = [p \in Callers |-> 0]
  /\ faults = 0
  /\ trace = [p \in Callers |-> <<>>]

NextRace ==
  \E p \in Racers : RaceInvoke(p) \/ LockStep(p) \/ LockedOpStep(p)

SpecRace == InitRace /\ [][NextRace]_vars

(* ---------- two renames racing on one card (SpecRenameRace) ------------- *)

\* createCard input whose body names the slug the card is created with
CreatedAs(k) == [PlainInput EXCEPT !.body = k]

\* renameCard(ctx, k, n) for every old key k and new slug n
RenameRaceCalls ==
  {OpCall("rename", SortKeys(k, n), k, [newSlug |-> n]) :
     k \in Keys, n \in Keys}

RenameRaceInvoke(p) ==
  \E cl \in RenameRaceCalls : cl.key # cl.arg.newSlug /\ Invoke(p, cl)

\* one card exists, created under any of the keys
InitRenameRace ==
  /\ InitLockVars
  /\ sw = SwIdle
  /\ \E k \in Keys :
       /\ files = [x \in Keys |->
                     IF x = k THEN CreateCardFile(k, CreatedAs(k)) ELSE NoFile]
       /\ db = CreateTx(EmptyDb, k, CreatedAs(k)).db
  /\ local = [p \in Callers |-> NoLocal]
  /\ attempt = [p \in Callers |-> 0]
  /\ faults = 0
  /\ trace = [p \in Callers |-> <<>>]

NextRenameRace ==
  \E p \in Racers :
    \/ RenameRaceInvoke(p) \/ LockStep(p)
    \/ RenameMove(p) \/ RenameRewrite(p) \/ RenameDb(p) \/ RenameRestore(p)
    \/ RetryWake(p)

SpecRenameRace == InitRenameRace /\ [][NextRenameRace]_vars

(* ------ syncCardFromFile racing a locked operation (SpecSyncRace) ------ *)

\* deleteCard(ctx, "a") and renameCard(ctx, "a", "b")
SyncRaceLockedCalls ==
  {OpCall("delete", <<"a">>, "a", NoArg),
   OpCall("rename", SortKeys("a", "b"), "a", [newSlug |-> "b"])}

\* the locked operation is called, once
SyncRaceLocked(p) ==
  /\ \A q \in Racers : call[q].op \notin {"delete", "rename"}
  /\ \E cl \in SyncRaceLockedCalls : Invoke(p, cl)

\* syncCardFromFile(ctx, path of "a") is called, once: it takes no lock
SyncRaceSync(p) ==
  /\ \A q \in Racers : call[q].op # "sync"
  /\ SyncInvoke(p, OpCall("sync", <<>>, "a", NoArg))

NextSyncRace ==
  \E p \in Racers :
    \/ SyncRaceLocked(p) \/ SyncRaceSync(p)
    \/ LockStep(p) \/ SyncStep(p)
    \/ DeleteDbAction(p) \/ WriteFileAction(p) \/ CompensateSync(p)
    \/ RenameMove(p) \/ RenameRewrite(p) \/ RenameDb(p) \/ RenameRestore(p)
    \/ RetryWake(p)

\* starts from the directory and the store after createCard of "a"
SpecSyncRace == InitRace /\ [][NextSyncRace]_vars

(* --------- a card other cards point at (SpecNeighbours) ---------------- *)

\* updateCard fields: { relations: [{ type: 'depends-on', target }] }
DependsOn(target) ==
  [NoFields EXCEPT
     !.relations = Given(<<[type |-> "depends-on", target |-> target]>>)]

\* the operations on two cards "a" and "b" that know each other
NeighbourCalls ==
  {OpCall("update", <<"a">>, "a", DependsOn("b")),
   OpCall("update", <<"b">>, "b", DependsOn("a")),
   OpCall("delete", <<"a">>, "a", NoArg),
   OpCall("rename", SortKeys("a", "d/c"), "a", [newSlug |-> "d/c"])}

NeighbourInvoke(p) ==
  SeqReady(p) /\ \E cl \in NeighbourCalls : Invoke(p, cl)

\* createCard of "a" and then of "b" have completed; "b" was created with
\* only the required fields, or with a relation towards "a"
InitNeighbours ==
  /\ InitLockVars
  /\ sw = SwIdle
  /\ \E input \in {PlainInput, FullInput("b")} :
       /\ files = [k \in Keys |->
                     CASE k = "a" -> CreateCardFile("a", PlainInput)
                       [] k = "b" -> CreateCardFile("b", input)
                       [] OTHER -> NoFile]
       /\ db = CreateTx(CreateTx(EmptyDb, "a", PlainInput).db, "b", input).db
  /\ local = [p \in Callers |-> NoLocal]
  /\ attempt = [p \in Callers |-> 0]
  /\ faults = 0
  /\ trace = [p \in Callers |-> <<>>]

NextNeighbours ==
  \E p \in Callers :
    \/ NeighbourInvoke(p) \/ LockStep(p)
    \/ UpdateDbAction(p) \/ DeleteDbAction(p)
    \/ WriteFileAction(p) \/ CompensateSync(p)
    \/ RenameMove(p) \/ RenameRewrite(p) \/ RenameDb(p) \/ RenameRestore(p)
    \/ RetryWake(p)

SpecNeighbours == InitNeighbours /\ [][NextNeighbours]_vars

(* ----------------------- bulkSyncCards (SpecBulk) ----------------------- *)

\* a card file whose text is not a front matter: readCardFile throws
InvalidFile == [key |-> "INVALID"]

\* the keys whose card file lies in a subdirectory of the cards directory
NestedKeys == {"d/c"}

\* an entry of the directory that is not a card file: another file, and a
\* directory whose name ends in .card.md
OtherEntries ==
  {[name |-> <<"README", ".md">>, isFile |-> TRUE],
   [name |-> <<"x", ".card.md">>, isFile |-> FALSE]}

\* readdir(targetDir, { withFileTypes: true }) of the cards directory: the
\* card files at its top level, the subdirectories, the other entries
Readdir(fs) ==
  {[name |-> <<k, ".card.md">>, isFile |-> TRUE] :
     k \in {x \in Keys \ NestedKeys : fs[x] # NoFile}}
    \cup (IF \E k \in NestedKeys : fs[k] # NoFile
            THEN {[name |-> <<"d">>, isFile |-> FALSE]} ELSE {})
    \cup OtherEntries

\* entry.name.endsWith('.card.md')
EndsWithCardMd(name) == name[Len(name)] = ".card.md"

\* if (!entry.isFile() || !entry.name.endsWith('.card.md')) continue
Skips(entry) == ~entry.isFile \/ ~EndsWithCardMd(entry.name)

\* join(targetDir, entry.name)
JoinPath(name) == <<"cardsDir">> \o name

StopsAtError(todo, failed) == IF failed THEN {} ELSE todo

\* the entries the loop still visits after one of them was handled
RestOfLoop(todo, failed) == todo

\* syncCardFromFile(ctx, filePath) as bulkSyncCards calls it: the file is
\* read and parsed, then the transaction runs
BulkSyncOne(fs, d, key, fault) ==
  IF fs[key] = NoFile THEN Failed(Err("ENOENT"))
  ELSE IF fs[key] = InvalidFile THEN Failed(Err("invalid front matter"))
  ELSE IF fault # "none" THEN Failed(Err(fault))
  ELSE SyncTx(d, key, fs[key])

\* const entries = await readdir(...); let synced = 0; const errors = []
BulkReaddir(p) ==
  /\ pc[p] = "idle"
  /\ call' = [call EXCEPT ![p] = OpCall("bulkSync", <<>>, "a", NoArg)]
  /\ local' = [local EXCEPT ![p] =
                 [entries |-> Readdir(files), todo |-> Readdir(files),
                  synced |-> 0, errors |-> <<>>, scanned |-> files]]
  /\ pc' = [pc EXCEPT ![p] = "scan"]
  /\ UNCHANGED <<cardLocks, resolved, prev, result, enqSeq, sw>>
  /\ UNCHANGED <<files, db, attempt, faults, trace>>

\* one turn of the loop, for the next entry in the order readdir gave
BulkEntry(p) ==
  /\ pc[p] = "scan"
  /\ \E entry \in local[p].todo : \E f \in Inject(StoreFaults, 0) :
       LET rest == local[p].todo \ {entry}
           key == entry.name[1]
           tx == BulkSyncOne(files, db, key, f)
       IN IF Skips(entry)
            THEN /\ local' = [local EXCEPT ![p].todo = rest]
                 /\ UNCHANGED <<db, faults>>
            ELSE /\ faults' = faults + (IF tx.ok THEN 0
                                        ELSE IF tx.err.kind = f THEN 1 ELSE 0)
                 /\ db' = IF tx.ok THEN tx.db ELSE db
                 /\ local' = [local EXCEPT
                      ![p].todo = RestOfLoop(rest, ~tx.ok),
                      ![p].synced = IF tx.ok THEN @ + 1 ELSE @,
                      ![p].errors =
                        IF tx.ok THEN @
                        ELSE Append(@, [filePath |-> JoinPath(entry.name),
                                        error |-> tx.err])]
  /\ UNCHANGED <<files, attempt, trace, result, pc, opFrame>>

\* return { synced, errors }
BulkReturn(p) ==
  /\ pc[p] = "scan"
  /\ local[p].todo = {}
  /\ result' = [result EXCEPT ![p] =
                  [kind |-> "ok", synced |-> local[p].synced,
                   errors |-> local[p].errors]]
  /\ pc' = [pc EXCEPT ![p] = "done"]
  /\ UNCHANGED <<cardLocks, resolved, prev, call, enqSeq, sw, storeVars>>

\* while the scan runs, something outside the engine removes a card file
BulkUnlink(p) ==
  /\ pc[p] = "scan"
  /\ \E k \in Keys \ NestedKeys :
       /\ files[k] # NoFile
       /\ files' = DeleteCardFile(files, k)
  /\ UNCHANGED <<db, local, attempt, faults, trace, result, pc, opFrame>>

\* what a card file of the directory can hold
BulkContents(k) ==
  {NoFile, InvalidFile, EditedCard(k),
   [EditedCard(k) EXCEPT !.relations = <<>>],
   [EditedCard(k) EXCEPT
      !.relations = <<[type |-> "depends-on", target |-> k]>>]}

InitBulk ==
  /\ InitLockVars
  /\ sw = SwIdle
  /\ \E fa \in BulkContents("a") : \E fb \in BulkContents("b") :
       \E fc \in {NoFile, EditedCard("d/c")} :
         files = [k \in Keys |->
                    IF k = "a" THEN fa ELSE IF k = "b" THEN fb ELSE fc]
  /\ db = EmptyDb
  /\ local = [p \in Callers |-> NoLocal]
  /\ attempt = [p \in Callers |-> 0]
  /\ faults = 0
  /\ trace = [p \in Callers |-> <<>>]

NextBulk == BulkReaddir(1) \/ BulkEntry(1) \/ BulkReturn(1) \/ BulkUnlink(1)

SpecBulk == InitBulk /\ [][NextBulk]_vars

(* ------------------------------ validateCards ------------------------- *)

\* the path segments of a slug
Segments(slug) == IF slug = "d/c" THEN <<"d", "c">> ELSE <<slug>>

\* basename(filePath, '.card.md') of a path buildCardPath made: the last
\* segment, without the suffix
Basename(filePath) == Segments(filePath[2])[Len(Segments(filePath[2]))]

\* validateCards(ctx): the card files at the top level of the directory
\* against the rows of the card table
ValidateCards(fs, d) ==
  LET cardFiles == {JoinPath(e.name) : e \in {x \in Readdir(fs) : ~Skips(x)}}
      dbRows == {d.card[k] : k \in {x \in DOMAIN d.card : HasRow(d, x)}}
      dbFilePaths == {r.filePath : r \in dbRows}
  IN [staleDbRows |-> {r \in dbRows : r.filePath \notin cardFiles},
      orphanFiles |-> {f \in cardFiles : f \notin dbFilePaths},
      keyMismatches |->
        {[row |-> r, expectedKey |-> Basename(r.filePath)] :
           r \in {x \in dbRows : Basename(x.filePath) # x.key}}]

(* ----------------------- getRelationGraph (SpecQuery) ------------------- *)

\* relationRepo.findByCardKey(cardKey): the rows with src = cardKey, forward
\* rows and mirrors, in table order
FindByCardKey(d, cardKey) == SelectSeq(d.rel, LAMBDA r : r.src = cardKey)

\* options?.maxDepth ?? Infinity
Infinity == [finite |-> FALSE]

Depth(n) == [finite |-> TRUE, n |-> n]

\* currentDepth >= maxDepth
AtMaxDepth(currentDepth, maxDepth) ==
  maxDepth.finite /\ currentDepth >= maxDepth.n

VisitedAtStartNothing(rootKey) == {}

\* const visited = new Set<string>([rootKey])
VisitedAtStart(rootKey) == {rootKey}

RECURSIVE VisitRelations(_, _, _, _, _)

\* for (const rel of relations) { ... }: st holds result, visited, queue
VisitRelations(d, relations, currentDepth, direction, st) ==
  IF relations = <<>>
    THEN st
    ELSE LET rel == Head(relations)
             isForward == ~rel.isReverse
             isBackward == rel.isReverse
             neighborKey == rel.dst
             skip == \/ direction = "forward" /\ ~isForward
                     \/ direction = "backward" /\ ~isBackward
                     \/ neighborKey \in st.visited
                     \/ ~HasRow(d, neighborKey)
             node == [key |-> neighborKey, depth |-> currentDepth + 1,
                      relationType |-> rel.type,
                      direction |-> IF isForward THEN "forward"
                                    ELSE "backward"]
         IN VisitRelations(d, Tail(relations), currentDepth, direction,
              IF skip THEN st
              ELSE [visited |-> st.visited \cup {neighborKey},
                    result |-> Append(st.result, node),
                    queue |-> Append(st.queue,
                                     <<neighborKey, currentDepth + 1>>)])

RECURSIVE Traverse(_, _, _, _)

TraverseDepthFirst(d, maxDepth, direction, st) ==
  IF st.queue = <<>>
    THEN st.result
    ELSE LET last == st.queue[Len(st.queue)]
             popped == [st EXCEPT !.queue = SubSeq(@, 1, Len(@) - 1)]
         IN IF AtMaxDepth(last[2], maxDepth)
              THEN Traverse(d, maxDepth, direction, popped)
              ELSE Traverse(d, maxDepth, direction,
                     VisitRelations(d, FindByCardKey(d, last[1]),
                                    last[2], direction, popped))

\* while (queue.length > 0) { ... }
Traverse(d, maxDepth, direction, st) ==
  IF st.queue = <<>>
    THEN st.result
    ELSE LET currentKey == Head(st.queue)[1]
             currentDepth == Head(st.queue)[2]
             shifted == [st EXCEPT !.queue = Tail(@)]
         IN IF AtMaxDepth(currentDepth, maxDepth)
              THEN Traverse(d, maxDepth, direction, shifted)
              ELSE Traverse(d, maxDepth, direction,
                     VisitRelations(d, FindByCardKey(d, currentKey),
                                    currentDepth, direction, shifted))

\* getRelationGraph(ctx, fullKey, options)
GetRelationGraph(d, rootKey, options) ==
  IF ~HasRow(d, rootKey)
    THEN <<>>
    ELSE Traverse(d, options.maxDepth, options.direction,
                  [result |-> <<>>, visited |-> VisitedAtStart(rootKey),
                   queue |-> <<<<rootKey, 0>>>>])

\* the cards of the queried stores
QueryKeys == {"a", "b", "c", "d", "e"}

\* the relations the cards may declare: a diamond a -> b, c -> d, an edge
\* back to the root, edges of a second type against and along them
QueryEdges ==
  <<[src |-> "a", type |-> "depends-on", target |-> "b"],
    [src |-> "a", type |-> "depends-on", target |-> "c"],
    [src |-> "b", type |-> "depends-on", target |-> "d"],
    [src |-> "c", type |-> "depends-on", target |-> "d"],
    [src |-> "d", type |-> "depends-on", target |-> "a"],
    [src |-> "b", type |-> "related", target |-> "a"],
    [src |-> "b", type |-> "related", target |-> "c"],
    [src |-> "a", type |-> "related", target |-> "b"]>>

\* two more relations: with a -> b, a -> c, c -> d they give "e" a path of
\* two edges and one of three
ChainEdges ==
  <<[src |-> "d", type |-> "depends-on", target |-> "e"],
    [src |-> "b", type |-> "depends-on", target |-> "e"]>>

QueryRow(k) ==
  [key |-> k, summary |-> "s1", status |-> "draft", constraintsJson |-> "null",
   body |-> "", filePath |-> BuildCardPath(k)]

RECURSIVE DeclareEdges(_, _, _)

\* the store after the chosen relations were declared one by one; one the
\* store rejects or skips leaves no row
DeclareEdges(d, edges, chosen) ==
  IF edges = <<>>
    THEN d
    ELSE LET e == Head(edges)
             tx == InsertRelations(d, e.src,
                                   <<[type |-> e.type, target |-> e.target]>>)
         IN DeclareEdges(IF e \in chosen /\ tx.ok THEN tx.db ELSE d,
                         Tail(edges), chosen)

\* the stores that are queried: the cards with a row, and their relations
QueryDb(present, chosen) ==
  DeclareEdges([card |-> [k \in QueryKeys |->
                            IF k \in present THEN QueryRow(k) ELSE NoRow],
                rel |-> <<>>, kw |-> {}, tag |-> {}, link |-> {}],
               QueryEdges \o ChainEdges, chosen)

QueryOptions ==
  [maxDepth : {Depth(0), Depth(1), Depth(2), Infinity},
   direction : {"forward", "backward", "both"}]

\* a caller runs getRelationGraph and keeps what it returned
Query(p) ==
  /\ pc[p] = "idle"
  /\ \E rootKey \in QueryKeys : \E options \in QueryOptions :
       /\ call' = [call EXCEPT ![p] =
                     OpCall("getRelationGraph", <<>>, rootKey, options)]
       /\ result' = [result EXCEPT ![p] =
                       [kind |-> "ok",
                        nodes |-> GetRelationGraph(db, rootKey, options)]]
  /\ pc' = [pc EXCEPT ![p] = "done"]
  /\ UNCHANGED <<cardLocks, resolved, prev, enqSeq, sw, storeVars>>

InitQuery ==
  /\ InitLockVars
  /\ sw = SwIdle
  /\ files = [k \in Keys |-> NoFile]
  /\ \E present \in {QueryKeys, QueryKeys \ {"d"}} :
       \E chosen \in SUBSET {(QueryEdges \o ChainEdges)[i] :
                               i \in 1..(Len(QueryEdges) + Len(ChainEdges))} :
         db = QueryDb(present, chosen)
  /\ local = [p \in Callers |-> NoLocal]
  /\ attempt = [p \in Callers |-> 0]
  /\ faults = 0
  /\ trace = [p \in Callers |-> <<>>]

NextQuery == Query(1)

SpecQuery == InitQuery /\ [][NextQuery]_vars

(* --------------- the replaceForCard repositories (SpecRepo) ------------ *)

\* the relation lists handed to relationRepo.replaceForCard: up to two
\* relations, towards a card that may be absent, the card itself, twice the
\* same
RepoRelations ==
  [type : AllowedRelationTypes, target : {"a", "b", "d"}]

RepoRelationLists ==
  {<<>>} \cup {<<r>> : r \in RepoRelations}
         \cup {<<r[1], r[2]>> : r \in RepoRelations \X RepoRelations}

\* the link lists handed to codeLinkRepo.replaceForCard
RepoLinkLists ==
  {<<>>} \cup {<<l>> : l \in {Link1, Link2}}
         \cup {<<l[1], l[2]>> : l \in {Link1, Link2} \X {Link1, Link2}}

\* tx => new DrizzleRelationRepository(tx).replaceForCard(cardKey,
\* relations): a throw rolls the transaction back
ReplaceForCard(p) ==
  /\ pc[p] = "idle"
  /\ \E cardKey \in {"a", "b", "d"} : \E relations \in RepoRelationLists :
       LET tx == ReplaceRelations(db, cardKey, relations)
       IN /\ call' = [call EXCEPT ![p] =
                        OpCall("relationRepo.replaceForCard", <<>>, cardKey,
                               relations)]
          /\ db' = IF tx.ok THEN tx.db ELSE db
          /\ result' = [result EXCEPT ![p] =
                          IF tx.ok THEN [kind |-> "ok"]
                          ELSE [kind |-> "err", err |-> tx.err]]
  /\ local' = [local EXCEPT ![p].before = db]
  /\ pc' = [pc EXCEPT ![p] = "done"]
  /\ UNCHANGED <<cardLocks, resolved, prev, enqSeq, sw>>
  /\ UNCHANGED <<files, attempt, faults, trace>>

\* tx => new DrizzleCodeLinkRepository(tx).replaceForCard(cardKey, links)
ReplaceLinksForCard(p) ==
  /\ pc[p] = "idle"
  /\ \E cardKey \in {"a", "d"} : \E links \in RepoLinkLists :
       LET tx == ReplaceCodeLinks(db, cardKey, links)
       IN /\ call' = [call EXCEPT ![p] =
                        OpCall("codeLinkRepo.replaceForCard", <<>>, cardKey,
                               links)]
          /\ db' = IF tx.ok THEN tx.db ELSE db
          /\ result' = [result EXCEPT ![p] =
                          IF tx.ok THEN [kind |-> "ok"]
                          ELSE [kind |-> "err", err |-> tx.err]]
  /\ local' = [local EXCEPT ![p].before = db]
  /\ pc' = [pc EXCEPT ![p] = "done"]
  /\ UNCHANGED <<cardLocks, resolved, prev, enqSeq, sw>>
  /\ UNCHANGED <<files, attempt, faults, trace>>

\* the stores of SpecQuery; card "a" may have a code link
InitRepo ==
  /\ InitLockVars
  /\ sw = SwIdle
  /\ files = [k \in Keys |-> NoFile]
  /\ \E present \in {QueryKeys, QueryKeys \ {"d"}} :
       \E chosen \in SUBSET {QueryEdges[i] : i \in 1..Len(QueryEdges)} :
         \E links \in {{}, {[cardKey |-> "a", link |-> Link1]}} :
           db = [QueryDb(present, chosen) EXCEPT !.link = links]
  /\ local = [p \in Callers |-> NoLocal]
  /\ attempt = [p \in Callers |-> 0]
  /\ faults = 0
  /\ trace = [p \in Callers |-> <<>>]

NextRepo == ReplaceForCard(1) \/ ReplaceLinksForCard(1)

SpecRepo == InitRepo /\ [][NextRepo]_vars

InitSafe ==
  /\ InitLockVars
  /\ InitStoreVars
  /\ sw \in [pc : {"start"}, db : SwDbBehaviours, file : SwAsyncBehaviours,
              comp : SwAsyncBehaviours, calls : {<<>>}, out : {NoResult}]

NextSafe == SwStart \/ SwFileSettled \/ SwCompSettled

SpecSafe == InitSafe /\ [][NextSafe]_vars

InitLock == InitLockVars /\ sw = SwIdle /\ InitStoreVars

NextLock == \E p \in Callers : InvokeFn(p) \/ LockStep(p) \/ FnStep(p)

SpecLock == InitLock /\ [][NextLock]_vars

\* the callers of one context
InvokeFnOneCtx(p) == \E cl \in {x \in LockCalls : x.ctx = "ctx1"} : Invoke(p, cl)

NextLockOneCtx ==
  \E p \in Callers : InvokeFnOneCtx(p) \/ LockStep(p) \/ FnStep(p)

\* once invoked, a caller is scheduled again whenever it can run: the event
\* loop runs every ready continuation, and the abstract fn terminates
FairLock == \A p \in Callers : WF_vars(LockStep(p) \/ FnStep(p))

FairSpecLock == InitLock /\ [][NextLockOneCtx]_vars /\ FairLock

(* ----------------------- claims about the lock -------------------------- *)

LockPcs == {"idle", "await1", "await2", "finally2", "finally1", "done"}

\* caller p has resumed from the `await prev` of its lvl-th withCardLock
Started(p, lvl) ==
  IF lvl = 1 THEN pc[p] \notin {"idle", "await1"}
             ELSE pc[p] \notin {"idle", "await1", "await2"}

\* the fn passed to p's lvl-th withCardLock is between its start and its end
InFn(p, lvl) ==
  /\ lvl <= Levels(p)
  /\ Started(p, lvl)
  /\ IF lvl = Levels(p) THEN pc[p] \notin LockPcs
                         ELSE pc[p] \notin {"finally1", "done"}

Finished(p, lvl) == Started(p, lvl) /\ ~InFn(p, lvl)

Holders(c, k) ==
  {h \in Callers \X {1, 2} :
     /\ InFn(h[1], h[2])
     /\ call[h[1]].ctx = c
     /\ call[h[1]].keys[h[2]] = k}

\* C1: for every context and key, at most one function passed to
\* withCardLock(ctx, key, fn) is between its start and its end.
C1_MutualExclusion ==
  \A c \in Ctxs : \A k \in Keys : Cardinality(Holders(c, k)) <= 1

\* a function runs under (ctx, key) while another caller waits for that lock
C1_Witness ==
  \E p \in Callers : \E q \in Callers \ {p} :
    /\ pc[p] = "body" /\ pc[q] = "await1"
    /\ call[p].ctx = call[q].ctx
    /\ call[q].keys[1] = call[p].keys[Levels(p)]

\* C2: callers of withCardLock on one (ctx, key) run in call order: when a
\* later caller's function has begun, every earlier caller's has ended.
C2_Fifo ==
  \A c \in Ctxs : \A k \in Keys :
    \A i \in 1..Len(enqSeq[c][k]) : \A j \in 1..Len(enqSeq[c][k]) :
      LET A == enqSeq[c][k][i]
          B == enqSeq[c][k][j]
      IN (i < j /\ Started(B[1], B[2])) => Finished(A[1], A[2])

\* three callers queued on one lock, and the last of them has begun
C2_Witness ==
  \E c \in Ctxs : \E k \in Keys :
    /\ Len(enqSeq[c][k]) >= 3
    /\ Started(enqSeq[c][k][3][1], enqSeq[c][k][3][2])
    /\ result[enqSeq[c][k][1][1]].kind = "err"

Acquired(p) == pc[p] \notin {"idle", "await1", "await2"}

SortedLocks ==
  \A p \in Callers :
    Levels(p) = 2 => KeyRank(call[p].keys[1]) < KeyRank(call[p].keys[2])

\* C5: a two-key caller takes its locks in ascending key order, and every
\* caller that has called withCardLock eventually holds all its locks.
C5_NoDeadlock ==
  /\ []SortedLocks
  /\ \A p \in Callers : (pc[p] # "idle") ~> Acquired(p)

\* two two-key callers on the same pair of keys: one holds both locks and
\* the other is queued
C5_Witness ==
  \E p \in Callers : \E q \in Callers \ {p} :
    /\ Levels(p) = 2 /\ Levels(q) = 2
    /\ call[p].ctx = call[q].ctx
    /\ pc[p] = "body" /\ pc[q] \in {"await1", "await2"}

(* ------------------- claims about safeWriteOperation ------------------- *)

SwCallsOf(f) == {i \in 1..Len(sw.calls) : sw.calls[i].fn = f}

SwSettled == sw.pc \in {"returned", "thrown"}

\* C7: dbAction succeeded and fileAction failed: compensate is called exactly
\* once, with dbAction's result; if it succeeds the call rejects with the
\* fileAction error.
C7_CompensateOnce ==
  (sw.db.kind = "ret" /\ sw.file.kind = "throw" /\ sw.pc \in {"comp", "thrown"})
    => /\ Cardinality(SwCallsOf("compensate")) = 1
       /\ \A i \in SwCallsOf("compensate") : sw.calls[i].arg = sw.db.val
       /\ (sw.pc = "thrown" /\ sw.comp.kind = "ok")
            => sw.out = [kind |-> "err", err |-> sw.file.err]

\* dbAction returned a value, fileAction failed, compensate succeeded
C7_Witness ==
  /\ sw.pc = "thrown" /\ sw.db.kind = "ret" /\ sw.db.val = "r1"
  /\ sw.file.kind = "throw" /\ sw.comp.kind = "ok"

\* C8: fileAction and compensate both fail: the call rejects with a
\* CompensationError carrying the fileAction error as originalError and the
\* compensate error as compensationError.
C8_CompensationError ==
  (SwSettled /\ sw.db.kind = "ret" /\ sw.file.kind = "throw"
     /\ sw.comp.kind = "throw")
    => /\ sw.out.kind = "CompensationError"
       /\ sw.out.originalError = sw.file.err
       /\ sw.out.compensationError = sw.comp.err

\* both failed, with different errors
C8_Witness ==
  /\ SwSettled /\ sw.db.kind = "ret"
  /\ sw.file.kind = "throw" /\ sw.comp.kind = "throw"
  /\ sw.file.err # sw.comp.err

\* C9: dbAction throws: the error reaches the caller and neither fileAction
\* nor compensate is called.
C9_DbErrorPropagates ==
  (sw.db.kind = "throw" /\ sw.pc # "start")
    => /\ sw.pc = "thrown"
       /\ sw.out = [kind |-> "err", err |-> sw.db.err]
       /\ SwCallsOf("fileAction") = {}
       /\ SwCallsOf("compensate") = {}

\* dbAction threw although fileAction and compensate would have failed too
C9_Witness ==
  /\ sw.db.kind = "throw" /\ sw.pc = "thrown"
  /\ sw.file.kind = "throw" /\ sw.comp.kind = "throw"

(* ------------------- claims about the card operations ------------------ *)

IsOk(p) == result[p].kind = "ok"

IsErr(p, kind) == result[p].kind = "err" /\ result[p].err.kind = kind

\* the invocation was rejected because of an injected store or file fault
Faulted(p) ==
  /\ result[p].kind = "err"
  /\ result[p].err.kind \in
       StoreFaults \cup FileFaults \cup {"CompensationError"}

\* both invocations are createCard with the same slug, a slug that had no
\* card when they were called, and both have settled
CreateRace(p, q) ==
  /\ p # q
  /\ call[p].op = "create" /\ call[q].op = "create"
  /\ call[p].key = call[q].key
  /\ RaceFiles[call[p].key] = NoFile
  /\ pc[p] = "done" /\ pc[q] = "done"

\* C3: when two createCard calls with the same (unused) slug run
\* concurrently on one context and no store or file fault makes either of
\* them fail, then however their steps interleave exactly one is fulfilled
\* and the other is rejected with CardAlreadyExistsError.
C3_CreateRace ==
  \A p, q \in Racers :
    CreateRace(p, q) /\ ~Faulted(p) /\ ~Faulted(q)
      => \/ IsOk(p) /\ IsErr(q, "CardAlreadyExistsError")
         \/ IsOk(q) /\ IsErr(p, "CardAlreadyExistsError")

C3_Witness ==
  /\ CreateRace(1, 2)
  /\ IsOk(1)
  /\ IsErr(2, "CardAlreadyExistsError")

\* withCardLock(ctx, k, ...) of p was called before that of q
CalledBefore(p, q) ==
  LET enq == enqSeq[call[p].ctx][call[p].key]
  IN \E i, j \in 1..Len(enq) :
       i < j /\ enq[i] = Current(p, 1) /\ enq[j] = Current(q, 1)

\* p is deleteCard(g) and q is updateCard(g, {summary}) on a card g that
\* exists; both have settled, neither because of an injected fault
DeleteUpdateRace(p, q) ==
  /\ p # q
  /\ call[p].op = "delete" /\ call[q].op = "update"
  /\ call[q].arg = SummaryOnly
  /\ call[p].key = call[q].key
  /\ RaceFiles[call[p].key] # NoFile
  /\ pc[p] = "done" /\ pc[q] = "done"
  /\ ~Faulted(p) /\ ~Faulted(q)

\* C4 (amended): when deleteCard(g) and updateCard(g, {summary}) race on an
\* existing card g, the two run in the order they were called.  If
\* deleteCard was called first it succeeds and the update is rejected with
\* CardNotFoundError; if updateCard was called first both succeed.
C4_DeleteUpdateRace ==
  \A p, q \in Racers :
    DeleteUpdateRace(p, q)
      => IF CalledBefore(p, q)
           THEN IsOk(p) /\ IsErr(q, "CardNotFoundError")
           ELSE IsOk(p) /\ IsOk(q)

\* C4 as stated: exactly one of the two succeeds, and an update that fails
\* is rejected with CardNotFoundError
C4_ExactlyOneSucceeds ==
  \A p, q \in Racers :
    DeleteUpdateRace(p, q)
      => /\ IsOk(p) # IsOk(q)
         /\ ~IsOk(q) => IsErr(q, "CardNotFoundError")

C4_Witness ==
  /\ DeleteUpdateRace(1, 2)
  /\ IsOk(1)
  /\ IsErr(2, "CardNotFoundError")

\* in p's history every file mutation comes after a store commit
FileAfterDb(p) ==
  \A i \in 1..Len(trace[p]) :
    trace[p][i] = "file" => \E j \in 1..(i - 1) : trace[p][j] = "db"

\* C6 (amended): in createCard, updateCard, updateCardStatus and deleteCard
\* the card file is written or deleted only after the operation's store
\* action has committed.  (renameCard moves and rewrites the file first.)
C6_FileAfterDb ==
  \A p \in Racers :
    call[p].op \in {"create", "update", "updateStatus", "delete"}
      => FileAfterDb(p)

\* C6 as stated: the same for every mutating operation, renameCard included
C6_EveryOperation ==
  \A p \in Racers :
    call[p].op \in {"create", "update", "updateStatus", "delete", "rename"}
      => FileAfterDb(p)

C6_Witness ==
  /\ call[1].op = "delete" /\ pc[1] = "done" /\ trace[1] = <<"db", "file">>
  /\ call[2].op = "create" /\ pc[2] = "done" /\ trace[2] = <<"db", "file">>

Range(seq) == {seq[i] : i \in 1..Len(seq)}

\* p is the latest invocation, and it was fulfilled
Completed(p) ==
  /\ pc[p] = "done"
  /\ IsOk(p)
  /\ \A q \in Callers : q > p => pc[q] = "idle"

\* the row of the file's key has the file's summary, status and body
RowAsFile(d, f) ==
  /\ HasRow(d, f.key)
  /\ d.card[f.key].summary = f.summary
  /\ d.card[f.key].status = f.status
  /\ d.card[f.key].body = f.body

ForwardSet(d, key) == Range(ForwardRelations(d, key))

\* which auxiliary sets the invocation replaces in the store
Replaces(p) ==
  LET arg == call[p].arg
  IN IF call[p].op = "sync"
       THEN [relations |-> TRUE, keywords |-> TRUE, tags |-> TRUE,
             codeLinks |-> TRUE]
       ELSE IF call[p].op = "create"
              THEN [relations |-> Len(arg.relations) > 0,
                    keywords |-> arg.keywords # {},
                    tags |-> arg.tags # {},
                    codeLinks |-> Len(arg.codeLinks) > 0]
              ELSE [relations |-> arg.relations.given,
                    keywords |-> arg.keywords.given,
                    tags |-> arg.tags.given,
                    codeLinks |-> arg.codeLinks.given]

\* C10 (amended): after a successful createCard, updateCard or
\* syncCardFromFile the row of the card has the summary, status and body of
\* the file.  Of the relations, keywords, tags and code links the
\* operation replaces those it was given (sync: all four; create: the
\* non-empty lists; update: the fields that are not undefined): a replaced
\* set equals the file's, except that relations whose target card has no
\* row are left out; a set that is not replaced is as it was in the store
\* before the operation.
C10_StoreAsFile ==
  \A p \in Callers :
    Completed(p) /\ call[p].op \in {"create", "update", "sync"}
      => LET f == files[call[p].key]
             b == local[p].before
             r == Replaces(p)
         IN /\ RowAsFile(db, f)
            /\ IF r.relations
                 THEN ForwardSet(db, f.key)
                        = {x \in Range(f.relations) : HasRow(db, x.target)}
                 ELSE ForwardSet(db, f.key) = ForwardSet(b, f.key)
            /\ IF r.keywords
                 THEN FindKeywordsByCard(db, f.key) = f.keywords
                 ELSE FindKeywordsByCard(db, f.key)
                        = FindKeywordsByCard(b, f.key)
            /\ IF r.tags
                 THEN FindTagsByCard(db, f.key) = f.tags
                 ELSE FindTagsByCard(db, f.key) = FindTagsByCard(b, f.key)
            /\ IF r.codeLinks
                 THEN FindCodeLinksByCard(db, f.key) = Range(f.codeLinks)
                 ELSE FindCodeLinksByCard(db, f.key)
                        = FindCodeLinksByCard(b, f.key)

\* C10 as stated: the store equals the file in all seven respects
C10_StoreEqualsFile ==
  \A p \in Callers :
    Completed(p) /\ call[p].op \in {"create", "update", "sync"}
      => LET f == files[call[p].key]
         IN /\ RowAsFile(db, f)
            /\ ForwardSet(db, f.key) = Range(f.relations)
            /\ FindKeywordsByCard(db, f.key) = f.keywords
            /\ FindTagsByCard(db, f.key) = f.tags
            /\ FindCodeLinksByCard(db, f.key) = Range(f.codeLinks)

C10_Witness ==
  \E p \in Callers :
    /\ Completed(p)
    /\ call[p].op = "update"
    /\ call[p].arg = NewRelations("a")
    /\ ForwardSet(db, "a") = {[type |-> "related", target |-> "b"]}
    /\ FindKeywordsByCard(db, "a") = {"k2"}

\* the store holds nothing for the key: no card row, no relation row with
\* the key as source or destination, no keyword or tag mapping, no code link
NothingStoredFor(d, key) ==
  /\ ~HasRow(d, key)
  /\ \A i \in 1..Len(d.rel) : d.rel[i].src # key /\ d.rel[i].dst # key
  /\ FindKeywordsByCard(d, key) = {}
  /\ FindTagsByCard(d, key) = {}
  /\ FindCodeLinksByCard(d, key) = {}

\* C11: after a successful deleteCard(key) the card file does not exist and
\* the store holds no card row, no relation row with key as source or
\* destination, no keyword or tag mapping and no code link for key.
C11_DeleteLeavesNothing ==
  \A p \in Callers :
    Completed(p) /\ call[p].op = "delete"
      => /\ files[call[p].key] = NoFile
         /\ NothingStoredFor(db, call[p].key)

\* a card that had a forward relation, its mirror, a keyword, a tag and a
\* code link was deleted
C11_Witness ==
  \E p \in Callers :
    /\ Completed(p) /\ call[p].op = "delete"
    /\ Len(local[p].before.rel) = 2
    /\ FindKeywordsByCard(local[p].before, call[p].key) # {}
    /\ FindTagsByCard(local[p].before, call[p].key) # {}
    /\ FindCodeLinksByCard(local[p].before, call[p].key) # {}

\* createCard's transaction committed, its file write failed, and the
\* compensation ran to its end: the call is rejected with the file error
CreateCompensated(p) ==
  /\ call[p].op = "create"
  /\ pc[p] = "done"
  /\ trace[p] = <<"db">>
  /\ result[p].kind = "err"
  /\ result[p].err.kind \in FileFaults
  /\ \A q \in Callers : q > p => pc[q] = "idle"

\* C20: when createCard's file write fails after its transaction has
\* committed, the compensation deletes the card row: afterwards the store
\* holds no card row, relation, keyword or tag mapping or code link for the
\* new key (and no card file was written).
C20_CreateCompensation ==
  \A p \in Callers :
    CreateCompensated(p)
      => /\ NothingStoredFor(db, call[p].key)
         /\ files[call[p].key] = NoFile

\* the failed createCard had committed a relation, a keyword, a tag and a
\* code link
C20_Witness ==
  \E p \in Callers :
    /\ CreateCompensated(p)
    /\ call[p].arg = FullInput(call[p].key)
    /\ HasRow(db, Other(call[p].key))

(* -------------------------- claims about withRetry --------------------- *)

\* how often the stub fn has been called, how often it threw a busy error
FnCalls(p) == Len(trace[p])

AllBusy(p) == \A i \in 1..Len(trace[p]) : trace[p][i] = "busy"

\* C18: withRetry calls fn again only after an error whose message contains
\* 'database is locked', at most maxRetries times, so that fn runs at most
\* maxRetries + 1 times; when there was an attempt and every one of the
\* maxRetries + 1 attempts fails busy, the call rejects with the error of
\* the last attempt.
C18_RetryBound ==
  \A p \in RetryCallers :
    call[p].op = "withRetry"
      => LET maxRetries == call[p].arg.maxRetries
         IN /\ attempt[p] <= maxRetries \/ attempt[p] = 0
            /\ FnCalls(p) <= maxRetries + 1
            /\ FnCalls(p) <= attempt[p] + 1
            /\ pc[p] = "sleep"
                 => Includes(Message(result[p].lastError),
                             "database is locked")
            /\ (FnCalls(p) > 0 /\ FnCalls(p) = maxRetries + 1 /\ AllBusy(p))
                 => /\ pc[p] = "done"
                    /\ result[p].kind = "err"
                    /\ IsSqliteBusy(result[p].err)
                    /\ result[p].err.kind = "database is locked"
                         => result[p].err.at = maxRetries

\* with the default maxRetries every attempt threw the store's busy error:
\* the call is rejected with the fourth one
C18_Witness ==
  \E p \in RetryCallers :
    /\ call[p].op = "withRetry"
    /\ call[p].arg.maxRetries = MaxRetries
    /\ pc[p] = "done"
    /\ trace[p] = <<"busy", "busy", "busy", "busy">>
    /\ result[p] = [kind |-> "err", err |-> BusyErrorAt(MaxRetries)]

\* the error classes that are never to be retried
NeverRetried ==
  {"CardValidationError", "CardNotFoundError", "CardAlreadyExistsError",
   "CardRenameSamePathError", "RelationTypeError"}

\* C19: withRetry never sleeps and retries after a validation, not-found,
\* already-exists, rename-same-path or relation-type error: such an error
\* is rethrown on the attempt where it occurs.
C19_NeverRetried ==
  \A p \in RetryCallers :
    pc[p] = "sleep" => result[p].lastError.kind \notin NeverRetried

(* --------------------------- claims about rename ----------------------- *)

\* p is a renameCard that was fulfilled, and the latest invocation
RenameDone(p) == call[p].op = "rename" /\ Completed(p)

\* C12: after a successful renameCard(old, new) only the new key resolves:
\* getCard(old) raises CardNotFoundError and neither a file nor a row exists
\* for old; getCard(new) returns the card with front-matter key new, and a
\* row for new exists.
C12_RenameResolves ==
  \A p \in Callers :
    RenameDone(p)
      => LET old == call[p].key
             new == call[p].arg.newSlug
         IN /\ GetCard(files, old) =
                 [ok |-> FALSE, err |-> Err("CardNotFoundError")]
            /\ ~HasRow(db, old)
            /\ GetCard(files, new).ok
            /\ GetCard(files, new).card.key = new
            /\ HasRow(db, new)

\* a card that had a row and code links was renamed
C12_Witness ==
  \E p \in Callers :
    /\ RenameDone(p)
    /\ HasRow(local[p].before, call[p].key)
    /\ FindCodeLinksByCard(local[p].before, call[p].key) # {}

\* every forward row of key has its mirror row
Mirrored(d, key) ==
  \A i \in 1..Len(d.rel) :
    (d.rel[i].src = key /\ ~d.rel[i].isReverse)
      => \E j \in 1..Len(d.rel) :
           d.rel[j] = RelationRow(d.rel[i].type, d.rel[i].dst, key, TRUE)

\* C13: a successful renameCard(old, new) of a card that has a row gives
\* the new row the summary, status, constraints and body of the old one,
\* and the new key has exactly the forward relations (with their mirrors),
\* keywords, tags and code links the old key had.
C13_RenamePreserves ==
  \A p \in Callers :
    RenameDone(p) /\ HasRow(local[p].before, call[p].key)
      => LET old == call[p].key
             new == call[p].arg.newSlug
             b == local[p].before
         IN /\ db.card[new].summary = b.card[old].summary
            /\ db.card[new].status = b.card[old].status
            /\ db.card[new].constraintsJson = b.card[old].constraintsJson
            /\ db.card[new].body = b.card[old].body
            /\ ForwardSet(db, new) = ForwardSet(b, old)
            /\ Mirrored(db, new)
            /\ FindKeywordsByCard(db, new) = FindKeywordsByCard(b, old)
            /\ FindTagsByCard(db, new) = FindTagsByCard(b, old)
            /\ FindCodeLinksByCard(db, new) = FindCodeLinksByCard(b, old)

\* the transaction of p's renameCard has failed, the catch block has moved
\* the file back and rethrown the store error, and nothing has run since
RenameRolledBack(p) ==
  /\ call[p].op = "rename"
  /\ local[p].err # Err("none")
  /\ \/ pc[p] = "sleep"
     \/ /\ pc[p] \in {"finally2", "finally1", "done"}
        /\ result[p] = [kind |-> "err", err |-> local[p].err]
  /\ \A q \in Callers : q > p => pc[q] = "idle"

C15_MirrorRule == \A k \in Keys : Mirrored(db, k)

\* a rename has re-created a forward row and its mirror under the new key
C15_Witness ==
  /\ \E p \in Callers : RenameDone(p)
  /\ \E i \in 1..Len(db.rel) : db.rel[i].src = "d/c" /\ ~db.rel[i].isReverse
  /\ Mirrored(db, "d/c")

\* the relations a settled create, update or sync declared, and the key of
\* the card they were declared for
Declared(p) ==
  CASE call[p].op = "create" -> call[p].arg.relations
    [] call[p].op = "update" /\ call[p].arg.relations.given ->
         call[p].arg.relations.val
    [] call[p].op = "sync" /\ local[p].card # NoFile ->
         local[p].card.relations
    [] OTHER -> <<>>

DeclaredFor(p) ==
  IF call[p].op = "sync" /\ local[p].card # NoFile
    THEN local[p].card.key
    ELSE call[p].key

DeclaresSelf(p) ==
  \E i \in 1..Len(Declared(p)) : Declared(p)[i].target = DeclaredFor(p)

\* C16: self-references are impossible: a create, update or sync that
\* declares a relation from a card to itself raises an error, and no
\* relation row with src = dst is ever stored.
C16_NoSelfReference ==
  /\ \A i \in 1..Len(db.rel) : db.rel[i].src # db.rel[i].dst
  /\ \A p \in Callers :
       (pc[p] = "done" /\ DeclaresSelf(p)) => result[p].kind = "err"

\* a create and, once the card has a row, an update that declared a
\* self-reference have both been rejected by the unique index
C16_Witness ==
  /\ HasRow(db, "a")
  /\ \E p \in Callers :
       /\ pc[p] = "done" /\ call[p].op = "create" /\ DeclaresSelf(p)
       /\ IsErr(p, UniqueError.kind)
  /\ \E q \in Callers :
       /\ pc[q] = "done" /\ call[q].op = "update" /\ DeclaresSelf(q)
       /\ IsErr(q, UniqueError.kind)

\* C17: after any sequence of operations card keys are unique and no two
\* card rows share the same filePath.
C17_FilePathUnique ==
  \A k1 \in Keys : \A k2 \in Keys :
    (/\ HasRow(db, k1) /\ HasRow(db, k2)
     /\ db.card[k1].filePath = db.card[k2].filePath) => k1 = k2

(* ------------------------ claims about compensation -------------------- *)

\* the dbAction of p's operation committed, its fileAction failed, and the
\* compensation ran to its end: the call is rejected with the file error
WriteCompensated(p, ops) ==
  /\ call[p].op \in ops
  /\ pc[p] = "done"
  /\ trace[p] = <<"db">>
  /\ result[p].kind = "err"
  /\ result[p].err.kind \in FileFaults
  /\ \A q \in Callers : q > p => pc[q] = "idle"

\* the store holds for the file's key what syncCardFromFile writes for the
\* file: the row, the relations whose target has a row (with mirrors), the
\* keywords, the tags and the code links
AsSynced(d, f) ==
  /\ RowAsFile(d, f)
  /\ d.card[f.key].constraintsJson = ConstraintsJsonIfTruthy(f.constraints)
  /\ ForwardSet(d, f.key) = {x \in Range(f.relations) : HasRow(d, x.target)}
  /\ Mirrored(d, f.key)
  /\ FindKeywordsByCard(d, f.key) = f.keywords
  /\ FindTagsByCard(d, f.key) = f.tags
  /\ FindCodeLinksByCard(d, f.key) = Range(f.codeLinks)

\* the row of key and its relations, keywords, tags and code links are the
\* same in the stores d and b
SameCard(d, b, key) ==
  /\ d.card[key] = b.card[key]
  /\ ForwardSet(d, key) = ForwardSet(b, key)
  /\ Mirrored(d, key)
  /\ FindKeywordsByCard(d, key) = FindKeywordsByCard(b, key)
  /\ FindTagsByCard(d, key) = FindTagsByCard(b, key)
  /\ FindCodeLinksByCard(d, key) = FindCodeLinksByCard(b, key)

\* C21 (amended): when the file write of updateCard or updateCardStatus
\* fails after the store was changed and the compensation succeeds, the
\* file is as before and the store holds for the card what a sync of that
\* file writes; these are the values from before the update whenever the
\* store agreed with the file before the update.
C21_UpdateCompensation ==
  \A p \in Callers :
    WriteCompensated(p, {"update", "updateStatus"})
      => LET f == files[call[p].key]
             b == local[p].before
         IN /\ f # NoFile /\ f.key = call[p].key
            /\ AsSynced(db, f)
            /\ AsSynced(b, f) => SameCard(db, b, call[p].key)

\* C21 as stated: after the compensation the card row and its relations,
\* keywords, tags and code links hold the values from before the update
C21_PreUpdateValues ==
  \A p \in Callers :
    WriteCompensated(p, {"update", "updateStatus"})
      => SameCard(db, local[p].before, call[p].key)

\* an update that replaced the relations and keywords of a card in the
\* store was undone by the compensation
C21_Witness ==
  \E p \in Callers :
    /\ WriteCompensated(p, {"update"})
    /\ call[p].arg = NewRelations("a")
    /\ AsSynced(local[p].before, files["a"])
    /\ FindKeywordsByCard(db, "a") = {"k1"}
    /\ ForwardSet(db, "a") = {[type |-> "depends-on", target |-> "b"]}

\* C22 (amended): when deleteCard's file removal fails after the card row
\* was deleted and the compensation succeeds, the file is still present
\* and the store holds again the row of the file's front-matter key with
\* the file's keywords, tags and code links and those of its forward
\* relations (with mirrors) whose target card has a row.  Forward
\* relations of other cards towards the deleted card are not restored.
C22_DeleteCompensation ==
  \A p \in Callers :
    WriteCompensated(p, {"delete"})
      => /\ files[call[p].key] # NoFile
         /\ AsSynced(db, files[call[p].key])
         /\ \A i \in 1..Len(db.rel) :
              db.rel[i].dst = call[p].key => db.rel[i].isReverse

\* C22 as stated: the row of the deleted key and every forward relation,
\* keyword, tag and code link the file declares are in the store again
C22_DeclaredPresent ==
  \A p \in Callers :
    WriteCompensated(p, {"delete"})
      => LET f == files[call[p].key]
         IN /\ HasRow(db, call[p].key)
            /\ Range(f.relations) \subseteq ForwardSet(db, call[p].key)
            /\ Mirrored(db, call[p].key)
            /\ f.keywords \subseteq FindKeywordsByCard(db, call[p].key)
            /\ f.tags \subseteq FindTagsByCard(db, call[p].key)
            /\ Range(f.codeLinks)
                 \subseteq FindCodeLinksByCard(db, call[p].key)

\* the delete had removed a row with a forward relation, its mirror, a
\* keyword, a tag and a code link, and the compensation brought them back
C22_Witness ==
  \E p \in Callers :
    /\ WriteCompensated(p, {"delete"})
    /\ Len(local[p].before.rel) = 2
    /\ Len(db.rel) = 2
    /\ FindKeywordsByCard(db, call[p].key) # {}
    /\ FindTagsByCard(db, call[p].key) # {}
    /\ FindCodeLinksByCard(db, call[p].key) # {}

(* ------------------- claims about updateCard's fields ------------------ *)

\* the rows replaceForCard(key, ...) owns: the forward rows of key and
\* their mirrors
OwnedRows(d, key) == {r \in Range(d.rel) : OwnedBy(r, key)}

\* both rows of every relation of the set
Pairs(relations, key) ==
  UNION {{RelationRow(x.type, key, x.target, FALSE),
          RelationRow(x.type, x.target, key, TRUE)} : x \in relations}

\* fields.x is null or an empty list
ClearsList(field) ==
  field.given /\ (field = FieldNull \/ Len(field.val) = 0)

ClearsNames(field) ==
  field.given /\ (field = FieldNull \/ field.val = {})

\* what the update did with one optional field: undefined keeps the value
\* of the file and the stored set, null or an empty list removes the field
\* and empties the set, a list replaces the field and makes the set `given`
FieldEffect(field, clears, cur, nxt, setBefore, setAfter, given) ==
  IF ~field.given THEN nxt = cur /\ setAfter = setBefore
  ELSE IF clears THEN nxt = Undefined /\ setAfter = {}
       ELSE nxt = Given(field.val) /\ setAfter = given

\* p's updateCard was fulfilled and is the latest call
FieldsDone(p) ==
  /\ pc[p] = "done" /\ IsOk(p) /\ call[p].op = "update"
  /\ \A q \in Callers : q > p => pc[q] = "idle"

\* the effect of p's update on keywords, tags and code links
NamesAndLinksEffect(p) ==
  LET f == call[p].arg
      cur == local[p].orig
      nxt == files["a"]
      b == local[p].before
  IN /\ FieldEffect(f.keywords, ClearsNames(f.keywords),
                    cur.keywords, nxt.keywords,
                    FindKeywordsByCard(b, "a"), FindKeywordsByCard(db, "a"),
                    IF f.keywords.given /\ f.keywords # FieldNull
                      THEN f.keywords.val ELSE {})
     /\ FieldEffect(f.tags, ClearsNames(f.tags), cur.tags, nxt.tags,
                    FindTagsByCard(b, "a"), FindTagsByCard(db, "a"),
                    IF f.tags.given /\ f.tags # FieldNull
                      THEN f.tags.val ELSE {})
     /\ FieldEffect(f.codeLinks, ClearsList(f.codeLinks),
                    cur.codeLinks, nxt.codeLinks,
                    FindCodeLinksByCard(b, "a"), FindCodeLinksByCard(db, "a"),
                    IF f.codeLinks.given /\ f.codeLinks # FieldNull
                      THEN Range(f.codeLinks.val) ELSE {})

\* the relations p's update was given, as a set
GivenRelations(p) ==
  LET f == call[p].arg.relations
  IN IF f.given /\ f # FieldNull THEN Range(f.val) ELSE {}

\* C23 (amended): in updateCard, for each of relations, keywords, tags and
\* codeLinks: a field left undefined keeps its value in the file and leaves
\* the stored set untouched; null or an empty list removes the field from
\* the front matter and empties the stored set; a non-empty list replaces
\* the field in the file and the stored set, where of the relations only
\* those whose target card has a row are stored (with their mirrors).
C23_FieldEffects ==
  \A p \in Callers :
    FieldsDone(p)
      => /\ NamesAndLinksEffect(p)
         /\ FieldEffect(call[p].arg.relations,
                        ClearsList(call[p].arg.relations),
                        local[p].orig.relations, files["a"].relations,
                        OwnedRows(local[p].before, "a"), OwnedRows(db, "a"),
                        Pairs({x \in GivenRelations(p) : HasRow(db, x.target)},
                              "a"))

\* C23 as stated: a non-empty list of relations replaces the stored set
C23_ListReplacesBoth ==
  \A p \in Callers :
    FieldsDone(p)
      => /\ NamesAndLinksEffect(p)
         /\ FieldEffect(call[p].arg.relations,
                        ClearsList(call[p].arg.relations),
                        local[p].orig.relations, files["a"].relations,
                        OwnedRows(local[p].before, "a"), OwnedRows(db, "a"),
                        Pairs(GivenRelations(p), "a"))

\* one update left the keywords alone, removed the tags with null, removed
\* the code links with an empty list and replaced the relations, on a card
\* that had all four
C23_Witness ==
  \E p \in Callers :
    /\ FieldsDone(p)
    /\ ~call[p].arg.keywords.given
    /\ call[p].arg.tags = FieldNull
    /\ call[p].arg.codeLinks = Given(<<>>)
    /\ ~ClearsList(call[p].arg.relations) /\ call[p].arg.relations.given
    /\ local[p].orig.keywords.given /\ local[p].orig.tags.given
    /\ local[p].orig.codeLinks.given /\ local[p].orig.relations.given
    /\ Len(local[p].before.rel) = 2
    /\ Len(db.rel) = 2

(* --------------------------- claims about sync ------------------------- *)

\* q = p + 1 synced the file p had synced, both were fulfilled, and q is
\* the latest call: the file did not change in between
SyncedTwice(p, q) ==
  /\ q = p + 1
  /\ call[p].op = "sync" /\ pc[p] = "done" /\ IsOk(p)
  /\ call[q].op = "sync" /\ Completed(q)
  /\ call[q].key = call[p].key

\* a second syncCardFromFile of the file at the path of key, run on the
\* store d that a first one left, succeeds and leaves d as it is
SecondSyncSame(fs, d, key) ==
  LET once == SyncTx(d, key, ReadCardFile(fs, key))
  IN once.ok => SyncTx(once.db, key, ReadCardFile(fs, key)) = Ok(once.db)

CreatedSlug ==
  CHOOSE k \in Keys : \E x \in Keys : files[x] # NoFile /\ files[x].body = k

\* p and q are renameCard calls on the same old key, the key of the card,
\* with different new slugs; both have settled, neither because of an
\* injected fault
RenameRace(p, q) ==
  /\ p # q
  /\ call[p].op = "rename" /\ call[q].op = "rename"
  /\ call[p].key = call[q].key
  /\ call[p].arg.newSlug # call[q].arg.newSlug
  /\ call[p].key = CreatedSlug
  /\ pc[p] = "done" /\ pc[q] = "done"
  /\ ~Faulted(p) /\ ~Faulted(q)

\* C25: when two renameCard calls on the same old key (that of an existing
\* card) with different unused new slugs run concurrently on one context
\* and no store or file fault makes either fail, exactly one is fulfilled
\* and the other is rejected with CardNotFoundError.
C25_RenameRace ==
  \A p, q \in Racers :
    RenameRace(p, q)
      => \/ IsOk(p) /\ IsErr(q, "CardNotFoundError")
         \/ IsOk(q) /\ IsErr(p, "CardNotFoundError")

\* the second caller won: the two calls take their first locks on
\* different keys and meet on the lock of the old key
C25_Witness ==
  /\ RenameRace(1, 2)
  /\ call[1].keys[1] # call[2].keys[1]
  /\ IsOk(2)
  /\ IsErr(1, "CardNotFoundError")

(* ------------------------ claims about bulkSyncCards ------------------- *)

\* the paths of the *.card.md files that were in the directory when
\* bulkSyncCards listed it
CardFilesScanned(p) ==
  {BuildCardPath(k) :
     k \in {x \in Keys \ NestedKeys : local[p].scanned[x] # NoFile}}

\* C26: bulkSyncCards attempts every *.card.md file of the directory even
\* when some fail: each failing file is recorded once as {filePath, error}
\* and the scan goes on, so synced + errors.length is the number of
\* *.card.md files in the directory.
C26_BulkSyncCounts ==
  \A p \in Callers :
    (pc[p] = "done" /\ call[p].op = "bulkSync")
      => LET errors == result[p].errors
         IN /\ result[p].synced + Len(errors)
                 = Cardinality(CardFilesScanned(p))
            /\ {errors[i].filePath : i \in 1..Len(errors)}
                 \subseteq CardFilesScanned(p)
            /\ \A i, j \in 1..Len(errors) :
                 errors[i].filePath = errors[j].filePath => i = j

\* a scan of two card files ended with one failure and one success
C26_Witness ==
  \E p \in Callers :
    /\ pc[p] = "done" /\ call[p].op = "bulkSync"
    /\ Cardinality(CardFilesScanned(p)) = 2
    /\ Len(result[p].errors) = 1
    /\ result[p].synced = 1

(* ---------------------- claims about getRelationGraph ------------------ *)

\* p's getRelationGraph has returned
Queried(p) == pc[p] = "done" /\ call[p].op = "getRelationGraph"

\* C27: getRelationGraph emits each key other than the root at most once
\* and never emits the root, for any relation graph, including diamonds and
\* cycles.
C27_EmitsOnce ==
  \A p \in Callers :
    Queried(p)
      => LET nodes == result[p].nodes
         IN /\ \A i, j \in 1..Len(nodes) :
                 nodes[i].key = nodes[j].key => i = j
            /\ \A i \in 1..Len(nodes) : nodes[i].key # call[p].key

\* the diamond with the edge back to the root: all three other cards are
\* emitted, "d" is reachable through "b" and through "c"
C27_Witness ==
  \E p \in Callers :
    /\ Queried(p)
    /\ call[p].key = "a"
    /\ call[p].arg.direction = "forward"
    /\ {r \in Range(db.rel) : ~r.isReverse /\ r.type = "depends-on"}
         = {RelationRow("depends-on", e.src, e.target, FALSE) :
              e \in {x \in Range(QueryEdges) : x.type = "depends-on"}}
    /\ {result[p].nodes[i].key : i \in 1..Len(result[p].nodes)}
         = {"b", "c", "d"}

(* ------------------ claims about a throwing fn under the lock ---------- *)

\* the fn of p has thrown
Threw(p) == call[p].op \in {"fn", "fn2"} /\ result[p].kind = "err"

\* q is suspended at an `await prev` whose prev is a promise of p
WaitsBehind(q, p) ==
  \/ pc[q] = "await1" /\ prev[q][1] \in {Current(p, 1), Current(p, 2)}
  \/ pc[q] = "await2" /\ prev[q][2] \in {Current(p, 1), Current(p, 2)}

\* q is suspended behind a caller whose fn has thrown
WaitsBehindThrown(q) ==
  \E p \in Callers \ {q} : Threw(p) /\ WaitsBehind(q, p)

\* withCardLock of p has settled with the error its fn threw, every lock it
\* took is released, and no map entry still holds one of its promises
ReleasedAndRethrown(p) ==
  /\ result[p].err \in FnErrors
  /\ \A lvl \in 1..Levels(p) :
       /\ Current(p, lvl) \in resolved
       /\ cardLocks[call[p].ctx][call[p].keys[lvl]] # Current(p, lvl)

\* C28: when the fn run under withCardLock throws, the lock is released and
\* the error reaches the caller; a caller waiting behind it on the same
\* (context, key) then runs.
C28_ThrowReleases ==
  /\ [](\A p \in Callers : (Threw(p) /\ pc[p] = "done") => ReleasedAndRethrown(p))
  /\ \A q \in Callers : WaitsBehindThrown(q) ~> ~WaitsBehindThrown(q)

\* the first caller's fn threw, and the caller queued behind it on the same
\* key has run its own fn to the end
C28_Witness ==
  \E p \in Callers : \E q \in Callers \ {p} :
    /\ Threw(p) /\ pc[p] = "done"
    /\ call[q].ctx = call[p].ctx
    /\ prev[q][1] = Current(p, Levels(p))
    /\ pc[q] = "done" /\ result[q].kind = "ok"

(* ----------------------- claims about the lock map --------------------- *)

\* p is between the locks.set of its lvl-th withCardLock and the end of that
\* call's finally block: it waits for the lock or holds it
HoldsOrWaits(p, lvl) ==
  IF lvl = 1
    THEN pc[p] \in {"await1", "await2", "body", "finally2", "finally1"}
    ELSE Levels(p) = 2 /\ pc[p] \in {"await2", "body", "finally2"}

\* C29: the lock map of a context has an entry for a key only while some
\* caller of that context holds or waits for the key's lock; once every
\* caller has settled, the map of every context is empty.
C29_LockMapCleanup ==
  /\ \A c \in Ctxs : \A k \in Keys :
       cardLocks[c][k] # NoPromise
         => \E p \in Callers : \E lvl \in 1..Levels(p) :
              /\ call[p].ctx = c /\ call[p].keys[lvl] = k
              /\ cardLocks[c][k] = Current(p, lvl)
              /\ HoldsOrWaits(p, lvl)
  /\ (\A p \in Callers : pc[p] \in {"idle", "done"})
       => \A c \in Ctxs : \A k \in Keys : cardLocks[c][k] = NoPromise

\* every caller has settled, two of them were queued behind another on the
\* same key of one context, and no entry is left
C29_Witness ==
  /\ \A p \in Callers : pc[p] = "done"
  /\ \E c \in Ctxs : \E k \in Keys : Len(enqSeq[c][k]) = NumCallers
  /\ \A c \in Ctxs : \A k \in Keys : cardLocks[c][k] = NoPromise

(* --------------------- claims about a rejected rename ------------------ *)

\* p's renameCard found the card file, moved it, and has rejected; no other
\* caller has run
RenameRejectedAfterMove(p) ==
  /\ call[p].op = "rename"
  /\ pc[p] = "done" /\ result[p].kind = "err"
  /\ local[p].orig # NoFile
  /\ local[p].orig.key = call[p].key
  /\ \A q \in Callers \ {p} : pc[q] = "idle"

\* C30: whenever renameCard rejects, the card file is at the old path with
\* the old front-matter key, no file is at the new path, and the store holds
\* the row of the old key and none for the new key.
C30_RenameAllOrNothing ==
  \A p \in Callers :
    RenameRejectedAfterMove(p)
      => LET old == call[p].key
             new == call[p].arg.newSlug
         IN /\ files[old] = local[p].orig
            /\ files[new] = NoFile
            /\ HasRow(db, old)
            /\ ~HasRow(db, new)

(* ------------- claims about sync racing a locked operation ------------- *)

\* syncCardFromFile of "a" and a deleteCard or renameCard of "a" have both
\* finished, with no error injected
SyncRaceOver ==
  /\ \A p \in Racers : pc[p] = "done"
  /\ \E p \in Racers : call[p].op = "sync"
  /\ \E p \in Racers : call[p].op \in {"delete", "rename"}
  /\ faults = 0

\* C31: a syncCardFromFile of a card's file that runs concurrently with
\* deleteCard or renameCard of that card leaves, once both have finished, a
\* card row for exactly the keys that have a file.
C31_SyncRaceAgreement ==
  SyncRaceOver => \A k \in Keys : HasRow(db, k) <=> files[k] # NoFile

(* ------------------- claims about replaceForCard ----------------------- *)

\* p has called relationRepo.replaceForCard, codeLinkRepo.replaceForCard
ReplacedRelations(p) ==
  pc[p] = "done" /\ call[p].op = "relationRepo.replaceForCard"

ReplacedLinks(p) ==
  pc[p] = "done" /\ call[p].op = "codeLinkRepo.replaceForCard"

\* r is a forward row another card declared towards key, or the mirror row
\* of such a row
OthersTowards(r, key) ==
  \/ r.dst = key /\ r.src # key /\ ~r.isReverse
  \/ r.src = key /\ r.dst # key /\ r.isReverse

\* C34: relationRepo.replaceForCard(key, relations) removes only forward
\* rows with src = key and mirror rows with dst = key; the forward rows of
\* other cards that point at key, and their mirror rows, stay as they were.
C34_ReplaceFrame ==
  \A p \in Callers :
    (ReplacedRelations(p) /\ IsOk(p))
      => LET key == call[p].key
             before == Range(local[p].before.rel)
             after == Range(db.rel)
         IN /\ \A r \in before : OthersTowards(r, key) => r \in after
            /\ \A r \in before \ after :
                 \/ r.src = key /\ ~r.isReverse
                 \/ r.dst = key /\ r.isReverse
            /\ SelectSeq(local[p].before.rel,
                         LAMBDA r : OthersTowards(r, key))
                 = SelectSeq(db.rel, LAMBDA r : OthersTowards(r, key))

\* a card that another card points at had relations of its own, which the
\* call replaced by others
C34_Witness ==
  \E p \in Callers :
    /\ ReplacedRelations(p) /\ IsOk(p)
    /\ call[p].arg # <<>>
    /\ \E r \in Range(db.rel) : OthersTowards(r, call[p].key)
    /\ \E r \in Range(local[p].before.rel) \ Range(db.rel) :
         r.src = call[p].key /\ ~r.isReverse

\* the cards of the insert exist: no foreign key fails
CardsExist(d, cardKey, target) == HasRow(d, cardKey) /\ HasRow(d, target)

\* inserting rel for cardKey hits uq_card_relation: the card itself is the
\* target, or the target declares the same type towards the card
HitsUnique(d, cardKey, rel) ==
  \/ rel.target = cardKey
  \/ \E r \in Range(d.rel) :
       /\ r.type = rel.type /\ r.src = rel.target /\ r.dst = cardKey
       /\ ~r.isReverse

\* some relation of the list that no foreign key stops hits the unique
\* index, against the store or against an earlier one of the list
SomeOtherError(d, cardKey, relations) ==
  \E i \in 1..Len(relations) :
    /\ CardsExist(d, cardKey, relations[i].target)
    /\ \/ HitsUnique(d, cardKey, relations[i])
       \/ \E j \in 1..(i - 1) : relations[j] = relations[i]

\* C35: in relationRepo.replaceForCard and codeLinkRepo.replaceForCard an
\* insert that fails on a foreign key skips that entry alone (for a relation
\* neither the forward row nor the mirror is stored) and the remaining
\* entries are processed; any other insert error is thrown to the caller.
C35_ForeignKeySkips ==
  \A p \in Callers :
    /\ ReplacedRelations(p)
         => LET key == call[p].key
                relations == call[p].arg
                b == local[p].before
            IN /\ IsOk(p) <=> ~SomeOtherError(b, key, relations)
               /\ ~IsOk(p) => result[p].err = UniqueError
               /\ IsOk(p) =>
                    \A t \in AllowedRelationTypes : \A k \in QueryKeys :
                      LET declared ==
                            /\ CardsExist(b, key, k)
                            /\ [type |-> t, target |-> k] \in Range(relations)
                      IN /\ RelationRow(t, key, k, FALSE) \in Range(db.rel)
                           <=> declared
                         /\ RelationRow(t, k, key, TRUE) \in Range(db.rel)
                           <=> declared
    /\ ReplacedLinks(p)
         => LET key == call[p].key
                links == call[p].arg
                b == local[p].before
                twice == /\ HasRow(b, key)
                         /\ \E i, j \in 1..Len(links) :
                              i # j /\ links[i] = links[j]
            IN /\ IsOk(p) <=> ~twice
               /\ ~IsOk(p) => result[p].err = UniqueError
               /\ IsOk(p) =>
                    FindCodeLinksByCard(db, key)
                      = IF HasRow(b, key) THEN Range(links) ELSE {}

\* a list whose first relation points at a card that does not exist and
\* whose second one was stored with its mirror
C35_Witness ==
  \E p \in Callers :
    /\ ReplacedRelations(p) /\ IsOk(p)
    /\ Len(call[p].arg) = 2
    /\ ~HasRow(db, call[p].arg[1].target)
    /\ RelationRow(call[p].arg[2].type, call[p].key,
                   call[p].arg[2].target, FALSE) \in Range(db.rel)
    /\ RelationRow(call[p].arg[2].type, call[p].arg[2].target,
                   call[p].key, TRUE) \in Range(db.rel)

(* ----------------- claims about relations between cards ---------------- *)

\* the forward rows other cards have towards key
Incoming(d, key) ==
  {r \in Range(d.rel) : r.dst = key /\ r.src # key /\ ~r.isReverse}

\* C32: after a successful renameCard(old, new), every card that had a
\* forward relation towards old has that relation towards new, with its
\* mirror.
C32_RenameKeepsIncoming ==
  \A p \in Callers :
    RenameDone(p)
      => \A r \in Incoming(local[p].before, call[p].key) :
           /\ RelationRow(r.type, r.src, call[p].arg.newSlug, FALSE)
                \in Range(db.rel)
           /\ RelationRow(r.type, call[p].arg.newSlug, r.src, TRUE)
                \in Range(db.rel)

\* p: updateCard(A, {relations: [{type, target: B}]}) was fulfilled; then q:
\* updateCard(B, {relations: [{same type, target: A}]}) has settled, and
\* nothing else has run, and no error was injected
MutualUpdates(p, q) ==
  /\ p < q
  /\ call[p].op = "update" /\ call[q].op = "update"
  /\ call[p].arg = DependsOn(call[q].key)
  /\ call[q].arg = DependsOn(call[p].key)
  /\ pc[p] = "done" /\ IsOk(p)
  /\ pc[q] = "done"
  /\ \A x \in Callers \ {p, q} : pc[x] = "idle"
  /\ faults = 0

\* C33: two cards can declare a relation of the same type towards each
\* other: the second updateCard succeeds too, and both forward rows are
\* stored with their mirrors.
C33_MutualRelations ==
  \A p, q \in Callers :
    MutualUpdates(p, q)
      => LET A == call[p].key
             B == call[q].key
         IN /\ IsOk(q)
            /\ {RelationRow("depends-on", A, B, FALSE),
                RelationRow("depends-on", B, A, TRUE),
                RelationRow("depends-on", B, A, FALSE),
                RelationRow("depends-on", A, B, TRUE)}
                 \subseteq Range(db.rel)

\* C37: after deleteCard's compensation, every forward relation another card
\* had towards the deleted card before the delete is stored again, with its
\* mirror.
C37_CompensationRestoresIncoming ==
  \A p \in Callers :
    WriteCompensated(p, {"delete"})
      => \A r \in Incoming(local[p].before, call[p].key) :
           /\ r \in Range(db.rel)
           /\ RelationRow(r.type, r.dst, r.src, TRUE) \in Range(db.rel)

(* ------------- claims about the order of bulkSyncCards ----------------- *)

\* p's bulkSyncCards has returned without an error; every card file of the
\* directory was valid and none was touched while the scan ran
BulkSyncedAll(p) ==
  /\ pc[p] = "done" /\ call[p].op = "bulkSync"
  /\ result[p].errors = <<>>
  /\ files = local[p].scanned
  /\ \A k \in Keys : files[k] # InvalidFile

\* the cards whose file is directly in the directory
InDirectory == {k \in Keys \ NestedKeys : files[k] # NoFile}

\* C36: after one bulkSyncCards over a directory of valid files, every
\* relation a file declares towards a card whose file is in the directory
\* too is stored with its mirror, in whatever order the directory was read.
C36_BulkOrderIndependent ==
  \A p \in Callers :
    BulkSyncedAll(p)
      => \A k \in InDirectory : \A rel \in Range(files[k].relations) :
           rel.target \in InDirectory
             => /\ RelationRow(rel.type, k, rel.target, FALSE) \in Range(db.rel)
                /\ RelationRow(rel.type, rel.target, k, TRUE) \in Range(db.rel)

(* ------------------- claims about the lock and retries ----------------- *)

\* q is running the function it passed to withCardLock: it holds every lock
\* it asked for and has not yet reached a finally block
InsideFn(q) ==
  pc[q] \notin {"idle", "await1", "await2", "finally2", "finally1", "done"}

\* p and q called with the same context and have a key in common
SameLock(p, q) ==
  /\ call[p].ctx = call[q].ctx
  /\ \E i \in 1..Levels(p) : \E j \in 1..Levels(q) :
       call[p].keys[i] = call[q].keys[j]

\* C38: between two attempts of a retried operation, while withRetry
\* sleeps, the operation still holds its key locks: none of its lock
\* promises is resolved and no other operation that locks one of its keys
\* is running its function.
C38_LockHeldAcrossRetries ==
  \A p \in Callers :
    pc[p] = "sleep"
      => /\ \A lvl \in 1..Levels(p) : Current(p, lvl) \notin resolved
         /\ \A q \in Callers \ {p} : SameLock(p, q) => ~InsideFn(q)

\* an operation hit a busy store, slept, ran again and was fulfilled; the
\* operation queued behind it on the same key ran only afterwards
C38_Witness ==
  \E p \in Callers : \E q \in Callers \ {p} :
    /\ attempt[p] = 1 /\ pc[p] = "done" /\ IsOk(p)
    /\ prev[q][1] = Current(p, 1)
    /\ pc[q] = "done"

(* ------------------------ claims about validateCards ------------------- *)

\* every operation called so far was fulfilled, none is running, and no
\* error was injected
AllSucceeded ==
  /\ \A p \in Callers : pc[p] = "idle" \/ (pc[p] = "done" /\ IsOk(p))
  /\ \E p \in Callers : pc[p] = "done"
  /\ faults = 0

\* C39: after successful operations only, validateCards reports no stale
\* row, no orphan file and no key mismatch, also for keys with a '/'.
C39_ValidateClean ==
  AllSucceeded
    => ValidateCards(files, db)
         = [staleDbRows |-> {}, orphanFiles |-> {}, keyMismatches |-> {}]

(* ------------------ claims about the depth of a node ------------------- *)

\* the direction filter lets row r through
AllowedRow(r, direction) ==
  \/ direction = "both"
  \/ direction = "forward" /\ ~r.isReverse
  \/ direction = "backward" /\ r.isReverse

RECURSIVE Within(_, _, _, _)

\* the cards with a path of at most n allowed rows from root, through
\* cards that exist
Within(d, root, direction, n) ==
  IF n = 0
    THEN {root}
    ELSE LET near == Within(d, root, direction, n - 1)
         IN near \cup {r.dst : r \in {x \in Range(d.rel) :
                                        /\ x.src \in near
                                        /\ AllowedRow(x, direction)
                                        /\ HasRow(d, x.dst)}}

\* the length of the shortest such path from root to key
Distance(d, root, direction, key) ==
  CHOOSE n \in 0..Cardinality(QueryKeys) :
    /\ key \in Within(d, root, direction, n)
    /\ \A m \in 0..(n - 1) : key \notin Within(d, root, direction, m)

\* C40: the depth of every node getRelationGraph emits is the length of the
\* shortest path from the root to the node's key over the rows the
\* direction filter allows and through existing cards.
C40_DepthIsShortestPath ==
  \A p \in Callers :
    Queried(p)
      => \A i \in 1..Len(result[p].nodes) :
           LET node == result[p].nodes[i]
               direction == call[p].arg.direction
           IN /\ node.key \in Within(db, call[p].key, direction,
                                     Cardinality(QueryKeys))
              /\ node.depth = Distance(db, call[p].key, direction, node.key)

\* "e" has a path of three forward rows through "c" and "d" and one of two
\* through "b", and is emitted at depth 2
C40_Witness ==
  \E p \in Callers :
    /\ Queried(p)
    /\ call[p].key = "a" /\ call[p].arg.direction = "forward"
    /\ {RelationRow("depends-on", "a", "b", FALSE),
        RelationRow("depends-on", "a", "c", FALSE),
        RelationRow("depends-on", "c", "d", FALSE),
        RelationRow("depends-on", "d", "e", FALSE),
        RelationRow("depends-on", "b", "e", FALSE)} \subseteq Range(db.rel)
    /\ \E i \in 1..Len(result[p].nodes) :
         result[p].nodes[i].key = "e" /\ result[p].nodes[i].depth = 2

====
